---- MODULE Spec2Model ----
(***************************************************************************)
(* Lightning-Network simulation visualizer: the record parser, the         *)
(* timeline event deriver, the payment forest builder, the entity          *)
(* aggregator and the application state that holds the loaded session.     *)
(*                                                                         *)
(* The application state is the React state of App; what a mounted         *)
(* component shows (its useMemo values) is a function of that state and is *)
(* written as an operator over it.                                         *)
(***************************************************************************)
EXTENDS Integers, Sequences, FiniteSets, TLC

(***************************************************************************)
(* Bounds of the model.                                                    *)
(***************************************************************************)
\* Most payment rows of one payments table.
MaxPayments == 2
\* Most attempts over all attempt histories of one payments table.
MaxAttempts == 2
\* Most payment rows of one payments table with shard references.
MaxForest == 3
\* Most shard references (shard ids other than -1) of one payments table.
MaxShardRefs == 2
\* Most characters of a list-valued field whose text is enumerated.
MaxText == 4

(***************************************************************************)
(* Generic helpers.                                                        *)
(***************************************************************************)
\* A nullable value: null is the empty sequence, a value v is <<v>>.
Null == <<>>

Some(v) == <<v>>

\* JavaScript truthiness of a number.
Truthy(n) == n # 0

RECURSIVE SumSeq(_)
SumSeq(s) == IF s = <<>> THEN 0 ELSE Head(s) + SumSeq(Tail(s))

RECURSIVE Flatten(_)
Flatten(ss) == IF ss = <<>> THEN <<>> ELSE Head(ss) \o Flatten(Tail(ss))

\* Number of positions of s whose element satisfies Test.
Count(s, Test(_)) == Cardinality({i \in 1..Len(s) : Test(s[i])})

(***************************************************************************)
(* Text of list-valued fields.                                             *)
(* The text of such a field is the sequence of its characters, over        *)
(* digits, the hyphen and letters: no white space, sign, point or exponent.*)
(***************************************************************************)
DigitChars == <<"0", "1", "2", "3", "4", "5", "6", "7", "8", "9">>

isDigit(c) == \E d \in 1..10 : DigitChars[d] = c

digitValue(c) == (CHOOSE d \in 1..10 : DigitChars[d] = c) - 1

\* The number NaN.  No token denotes a negative number (the hyphen is the
\* separator), so the number below 0 stands for it among the numbers of a
\* parsed list.
NaN == 0 - 1

isNaN(n) == n = NaN

RECURSIVE decimalValue(_)
decimalValue(chars) ==
  IF chars = <<>> THEN 0
  ELSE 10 * decimalValue(SubSeq(chars, 1, Len(chars) - 1))
       + digitValue(chars[Len(chars)])

\* Number(token): 0 for the empty token, the value of a digit string, NaN
\* for a token with another character.
Number(token) ==
  IF token = <<>> THEN 0
  ELSE IF \A i \in 1..Len(token) : isDigit(token[i]) THEN decimalValue(token)
  ELSE NaN

\* String(n) of a number of a parsed list.
RECURSIVE numberToString(_)
numberToString(n) ==
  IF isNaN(n) THEN <<"N", "a", "N">>
  ELSE IF n < 10 THEN <<DigitChars[n + 1]>>
  ELSE numberToString(n \div 10) \o <<DigitChars[(n % 10) + 1]>>

\* text.split(separator)
RECURSIVE split(_, _)
split(text, separator) ==
  LET at == {i \in 1..Len(text) : text[i] = separator}
  IN  IF at = {} THEN <<text>>
      ELSE LET i == CHOOSE i \in at : \A j \in at : i <= j
           IN  <<SubSeq(text, 1, i - 1)>>
               \o split(SubSeq(text, i + 1, Len(text)), separator)

\* A join that ends every number with the separator.
RECURSIVE join_trailingSeparator(_, _)
join_trailingSeparator(list, separator) ==
  IF list = <<>> THEN <<>>
  ELSE numberToString(Head(list)) \o <<separator>>
       \o join_trailingSeparator(Tail(list), separator)

\* list.join(separator) of a list of numbers
RECURSIVE join(_, _)
join(list, separator) ==
  IF list = <<>> THEN <<>>
  ELSE IF Len(list) = 1 THEN numberToString(list[1])
  ELSE numberToString(Head(list)) \o <<separator>> \o join(Tail(list), separator)

\* row.open_edges ? row.open_edges.split('-').map(Number) : []
openEdgesOf(text) ==
  IF text = <<>> THEN <<>>
  ELSE LET tokens == split(text, "-")
       IN  [i \in 1..Len(tokens) |-> Number(tokens[i])]

\* row.route ? row.route.split('-').map(Number).filter(n => !isNaN(n)) : []
routeOf(text) ==
  IF text = <<>> THEN <<>>
  ELSE LET tokens == split(text, "-")
           notNaN(n) == ~isNaN(n)
       IN  SelectSeq([i \in 1..Len(tokens) |-> Number(tokens[i])], notNaN)

(***************************************************************************)
(* Text of the attempts_history field: empty, the JSON text of an array of *)
(* attempt records, or a text that is no JSON.                             *)
(***************************************************************************)
EmptyText == [text |-> "empty"]

MalformedText == [text |-> "malformed"]

JsonText(value) == [text |-> "json", value |-> value]

\* An undecodable history that yields an attempt of its own.
decodeAttemptsHistory_placeholder(text) ==
  IF text.text = "json" THEN text.value
  ELSE <<[is_succeeded |-> 0, end_time |-> 0, error_edge |-> 1, route |-> <<>>]>>

\* attemptsHistory of a row: [] for an empty field, JSON.parse of the field,
\* and [] again when JSON.parse throws.
decodeAttemptsHistory(text) ==
  IF text.text = "empty" THEN <<>>
  ELSE IF text.text = "json" THEN text.value
  ELSE <<>>

(***************************************************************************)
(* Record parser: payments table.                                          *)
(* A row carries the text of its numeric fields as the integer the text    *)
(* denotes, its boolean-coded fields as the strings "1" / "0", its route   *)
(* as the characters of the field and its attempts_history as above.       *)
(***************************************************************************)
parsePaymentRow(row) ==
  [id              |-> row.id,
   senderId        |-> row.sender_id,
   receiverId      |-> row.receiver_id,
   amount          |-> row.amount,
   startTime       |-> row.start_time,
   isShard         |-> row.is_shard = "1",
   shard1Id        |-> row.shard1_id,
   shard2Id        |-> row.shard2_id,
   isSuccess       |-> row.is_success = "1",
   route           |-> routeOf(row.route),
   attemptsHistory |-> decodeAttemptsHistory(row.attempts_history),
   childShards     |-> Null]

\* paymentMap: the position of the payment a Map built by set() in table
\* order returns for an id (the last row with that id), 0 when there is none.
paymentMapGet(payments, id) ==
  LET hits == {i \in 1..Len(payments) : payments[i].id = id}
  IN  IF hits = {} THEN 0 ELSE CHOOSE i \in hits : \A j \in hits : j <= i

\* A second pass that sets childShards whenever a shard id is given.
linkChildShards_always(payments, payment) ==
  IF payment.shard1Id >= 0 \/ payment.shard2Id >= 0
  THEN LET k1 == IF payment.shard1Id >= 0
                 THEN paymentMapGet(payments, payment.shard1Id) ELSE 0
           k2 == IF payment.shard2Id >= 0
                 THEN paymentMapGet(payments, payment.shard2Id) ELSE 0
           shards == (IF k1 # 0 THEN <<payments[k1].id>> ELSE <<>>)
                     \o (IF k2 # 0 THEN <<payments[k2].id>> ELSE <<>>)
       IN  [payment EXCEPT !.childShards = Some(shards)]
  ELSE payment

\* Second pass of parsePayments for one payment: the resolved shards, as the
\* ids of the payments found, or childShards left unset.
linkChildShards(payments, payment) ==
  IF payment.shard1Id >= 0 \/ payment.shard2Id >= 0
  THEN LET k1 == IF payment.shard1Id >= 0
                 THEN paymentMapGet(payments, payment.shard1Id) ELSE 0
           k2 == IF payment.shard2Id >= 0
                 THEN paymentMapGet(payments, payment.shard2Id) ELSE 0
           shards == (IF k1 # 0 THEN <<payments[k1].id>> ELSE <<>>)
                     \o (IF k2 # 0 THEN <<payments[k2].id>> ELSE <<>>)
       IN  IF Len(shards) > 0
           THEN [payment EXCEPT !.childShards = Some(shards)]
           ELSE payment
  ELSE payment

parsePayments(rows) ==
  LET payments == [i \in 1..Len(rows) |-> parsePaymentRow(rows[i])]
  IN  [i \in 1..Len(payments) |-> linkChildShards(payments, payments[i])]

(***************************************************************************)
(* Timeline event deriver.                                                 *)
(***************************************************************************)
\* The gap subtracted from an attempt's end_time to approximate its start.
AttemptStartOffset == 100

routeEdgeIds(route) == [h \in 1..Len(route) |-> route[h].edge_id]

\* Attempt events that are pushed for route-less attempts too.
attemptEvents_always(payment, i) ==
  LET attempt == payment.attemptsHistory[i]
  IN  <<[time         |-> attempt.end_time - AttemptStartOffset,
         type         |-> "payment_attempt",
         paymentId    |-> payment.id,
         attemptIndex |-> i - 1,
         routeEdges   |-> routeEdgeIds(attempt.route)]>>
      \o
      (IF Truthy(attempt.is_succeeded)
       THEN <<[time         |-> attempt.end_time,
               type         |-> "payment_success",
               paymentId    |-> payment.id,
               attemptIndex |-> i - 1,
               routeEdges   |-> routeEdgeIds(attempt.route)]>>
       ELSE IF attempt.error_edge > 0
       THEN <<[time         |-> attempt.end_time,
               type         |-> "payment_fail",
               paymentId    |-> payment.id,
               attemptIndex |-> i - 1,
               errorEdge    |-> attempt.error_edge]>>
       ELSE <<>>)

\* The events pushed for attempt number i (1-based here, attemptIndex i - 1).
attemptEvents(payment, i) ==
  LET attempt == payment.attemptsHistory[i]
  IN  (IF Len(attempt.route) > 0
       THEN <<[time         |-> attempt.end_time - AttemptStartOffset,
               type         |-> "payment_attempt",
               paymentId    |-> payment.id,
               attemptIndex |-> i - 1,
               routeEdges   |-> routeEdgeIds(attempt.route)]>>
       ELSE <<>>)
      \o
      (IF Truthy(attempt.is_succeeded)
       THEN <<[time         |-> attempt.end_time,
               type         |-> "payment_success",
               paymentId    |-> payment.id,
               attemptIndex |-> i - 1,
               routeEdges   |-> routeEdgeIds(attempt.route)]>>
       ELSE IF attempt.error_edge > 0
       THEN <<[time         |-> attempt.end_time,
               type         |-> "payment_fail",
               paymentId    |-> payment.id,
               attemptIndex |-> i - 1,
               errorEdge    |-> attempt.error_edge]>>
       ELSE <<>>)

\* Push order of one payment whose start event waits for a first attempt.
paymentEvents_startOnAttempt(payment) ==
  (IF Len(payment.attemptsHistory) > 0
   THEN <<[time |-> payment.startTime, type |-> "payment_start", paymentId |-> payment.id]>>
   ELSE <<>>)
  \o Flatten([i \in 1..Len(payment.attemptsHistory) |-> attemptEvents(payment, i)])

\* The events pushed for one payment, in push order.
paymentEvents(payment) ==
  <<[time |-> payment.startTime, type |-> "payment_start", paymentId |-> payment.id]>>
  \o Flatten([i \in 1..Len(payment.attemptsHistory) |-> attemptEvents(payment, i)])

\* The events array before the sort.
pushedEvents(payments) ==
  Flatten([k \in 1..Len(payments) |-> paymentEvents(payments[k])])

\* A sort that puts an element before the elements of equal time.
RECURSIVE insertByTime_unstable(_, _)
insertByTime_unstable(sorted, e) ==
  IF sorted = <<>> THEN <<e>>
  ELSE IF Head(sorted).time - e.time < 0
       THEN <<Head(sorted)>> \o insertByTime_unstable(Tail(sorted), e)
       ELSE <<e>> \o sorted

\* Array.prototype.sort with the comparator a.time - b.time: a stable sort,
\* here as a stable insertion of each element behind the elements not later.
RECURSIVE insertByTime(_, _)
insertByTime(sorted, e) ==
  IF sorted = <<>> THEN <<e>>
  ELSE IF Head(sorted).time - e.time <= 0
       THEN <<Head(sorted)>> \o insertByTime(Tail(sorted), e)
       ELSE <<e>> \o sorted

RECURSIVE sortByTime(_)
sortByTime(events) ==
  IF events = <<>> THEN <<>>
  ELSE insertByTime(sortByTime(SubSeq(events, 1, Len(events) - 1)),
                    events[Len(events)])

generateTimelineEvents(payments) == sortByTime(pushedEvents(payments))

(***************************************************************************)
(* Record parser: edges and channels tables.                               *)
(***************************************************************************)
parseEdges(rows) ==
  [i \in 1..Len(rows) |->
     [id         |-> rows[i].id,
      channelId  |-> rows[i].channel_id,
      fromNodeId |-> rows[i].from_node_id,
      toNodeId   |-> rows[i].to_node_id]]

parseChannels(rows) ==
  [i \in 1..Len(rows) |->
     [id    |-> rows[i].id,
      edge1 |-> rows[i].edge1,
      edge2 |-> rows[i].edge2,
      node1 |-> rows[i].node1,
      node2 |-> rows[i].node2]]

parseNodes(rows) ==
  [i \in 1..Len(rows) |->
     [id        |-> rows[i].id,
      openEdges |-> openEdgesOf(rows[i].open_edges)]]

(***************************************************************************)
(* Record parser: config text.                                             *)
(* The text is the sequence of its lines; a line is its key (the part      *)
(* before the first '=') and the sequence of the parts after it, each part *)
(* the sequence of its characters: digits and letters, no white space,     *)
(* sign or point.                                                          *)
(***************************************************************************)
ConfigLine(key, parts) == [key |-> key, parts |-> parts]

\* config[key] after the loop over the lines: the value of the last line
\* with that key that has a value, or null (undefined).  A line with an
\* empty key or without '=' sets nothing.
configValue(lines, key) ==
  LET hits == {i \in 1..Len(lines) :
                 lines[i].key = key /\ key # "" /\ Len(lines[i].parts) >= 1}
  IN  IF hits = {} THEN Null
      ELSE Some(lines[CHOOSE i \in hits : \A j \in hits : j <= i].parts[1])

\* parseInt / parseFloat of a value: the number its longest prefix of digits
\* denotes, or null for NaN (no such prefix, or no value at all).
RECURSIVE digitPrefix(_)
digitPrefix(chars) ==
  IF chars = <<>> \/ ~isDigit(Head(chars)) THEN <<>>
  ELSE <<Head(chars)>> \o digitPrefix(Tail(chars))

parseInt(value) ==
  IF value = Null \/ digitPrefix(value[1]) = <<>> THEN Null
  ELSE Some(decimalValue(digitPrefix(value[1])))

\* A fallback that yields 0 for NaN.
orDefault_zero(number, default) ==
  IF number = Null THEN 0 ELSE IF number[1] = 0 THEN default ELSE number[1]

\* number || default: the default for NaN and for 0.
orDefault(number, default) ==
  IF number = Null \/ number[1] = 0 THEN default ELSE number[1]

Ratio(num, den) == [num |-> num, den |-> den]

\* The fields of the parsed config with their keys, by kind:
\*   "int"      parseInt(config.key) || default
\*   "float"    parseFloat(config.key) || default, as Ratio
\*   "nullable" config.key ? parseInt(config.key) : null
\*   "string"   config.key || ''
\*   "bool"     config.key === 'true'
ConfigFields ==
  <<[field |-> "generateNetworkFromFile", key |-> "generate_network_from_file", kind |-> "bool"],
    [field |-> "nodesFilename", key |-> "nodes_filename", kind |-> "string"],
    [field |-> "channelsFilename", key |-> "channels_filename", kind |-> "string"],
    [field |-> "edgesFilename", key |-> "edges_filename", kind |-> "string"],
    [field |-> "nAdditionalNodes", key |-> "n_additional_nodes", kind |-> "nullable"],
    [field |-> "nChannelsPerNode", key |-> "n_channels_per_node", kind |-> "nullable"],
    [field |-> "capacityPerChannel", key |-> "capacity_per_channel", kind |-> "nullable"],
    [field |-> "faultyNodeProbability", key |-> "faulty_node_probability", kind |-> "float",
     default |-> Ratio(0, 1)],
    [field |-> "generatePaymentsFromFile", key |-> "generate_payments_from_file", kind |-> "bool"],
    [field |-> "paymentTimeout", key |-> "payment_timeout", kind |-> "int", default |-> 60000],
    [field |-> "averagePaymentForwardInterval", key |-> "average_payment_forward_interval",
     kind |-> "int", default |-> 100],
    [field |-> "variancePaymentForwardInterval", key |-> "variance_payment_forward_interval",
     kind |-> "int", default |-> 1],
    [field |-> "routingMethod", key |-> "routing_method", kind |-> "string"],
    [field |-> "groupSize", key |-> "group_size", kind |-> "int", default |-> 5],
    [field |-> "groupLimitRate", key |-> "group_limit_rate", kind |-> "float",
     default |-> Ratio(1, 10)],
    [field |-> "groupCapUpdate", key |-> "group_cap_update", kind |-> "bool"],
    [field |-> "groupBroadcastDelay", key |-> "group_broadcast_delay", kind |-> "int",
     default |-> 0],
    [field |-> "paymentsFilename", key |-> "payments_filename", kind |-> "string"],
    [field |-> "paymentRate", key |-> "payment_rate", kind |-> "int", default |-> 1],
    [field |-> "nPayments", key |-> "n_payments", kind |-> "int", default |-> 5000],
    [field |-> "averagePaymentAmount", key |-> "average_payment_amount", kind |-> "int",
     default |-> 100],
    [field |-> "variancePaymentAmount", key |-> "variance_payment_amount", kind |-> "int",
     default |-> 10],
    [field |-> "averageMaxFeeLimit", key |-> "average_max_fee_limit", kind |-> "int",
     default |-> -1],
    [field |-> "varianceMaxFeeLimit", key |-> "variance_max_fee_limit", kind |-> "int",
     default |-> -1],
    [field |-> "enableFakeBalanceUpdate", key |-> "enable_fake_balance_update", kind |-> "bool"],
    [field |-> "culThresholdDistAlpha", key |-> "cul_threshold_dist_alpha", kind |-> "float",
     default |-> Ratio(2, 1)],
    [field |-> "culThresholdDistBeta", key |-> "cul_threshold_dist_beta", kind |-> "float",
     default |-> Ratio(10, 1)],
    [field |-> "mpp", key |-> "mpp", kind |-> "int", default |-> 1],
    [field |-> "maxShardCount", key |-> "max_shard_count", kind |-> "int", default |-> 16]>>

configFieldOf(name) == ConfigFields[CHOOSE i \in 1..Len(ConfigFields) : ConfigFields[i].field = name]

parseConfig(lines) ==
  [name \in {ConfigFields[i].field : i \in 1..Len(ConfigFields)} |->
     LET f == configFieldOf(name)
         value == configValue(lines, f.key)
     IN  CASE f.kind = "bool" -> value = Some(<<"t", "r", "u", "e">>)
           [] f.kind = "string" -> IF value = Null THEN <<>> ELSE value[1]
           [] f.kind = "nullable" ->
                IF value = Null \/ value = Some(<<>>) THEN Null ELSE Some(parseInt(value))
           [] f.kind = "float" ->
                LET number == parseInt(value)
                IN  IF number = Null \/ number[1] = 0 THEN f.default
                    ELSE Ratio(number[1], 1)
           [] f.kind = "int" -> orDefault(parseInt(value), f.default)]

(***************************************************************************)
(* Payment forest builder.                                                 *)
(* A tree node is [payment, children, depth, totalLeafAmount, leafCount];  *)
(* children is the sequence of child tree nodes.                           *)
(***************************************************************************)
\* The position of the payment a shard reference resolves to, 0 for none.
resolveShard(payments, shardId) ==
  IF shardId >= 0 THEN paymentMapGet(payments, shardId) ELSE 0

\* A tree node that counts itself as a leaf next to its children.
treeNode_countsSelf(payment, children, depth) ==
  [payment         |-> payment,
   children        |-> children,
   depth           |-> depth,
   totalLeafAmount |-> payment.amount
                       + SumSeq([c \in 1..Len(children) |-> children[c].totalLeafAmount]),
   leafCount       |-> 1 + SumSeq([c \in 1..Len(children) |-> children[c].leafCount])]

treeNode(payment, children, depth) ==
  [payment         |-> payment,
   children        |-> children,
   depth           |-> depth,
   totalLeafAmount |-> IF Len(children) = 0 THEN payment.amount
                       ELSE SumSeq([c \in 1..Len(children) |-> children[c].totalLeafAmount]),
   leafCount       |-> IF Len(children) = 0 THEN 1
                       ELSE SumSeq([c \in 1..Len(children) |-> children[c].leafCount])]

\* PaymentTree.buildTree without a cache.
RECURSIVE buildTree(_, _, _)
buildTree(payments, payment, depth) ==
  LET k1 == resolveShard(payments, payment.shard1Id)
      k2 == resolveShard(payments, payment.shard2Id)
      children ==
        (IF k1 # 0 THEN <<buildTree(payments, payments[k1], depth + 1)>> ELSE <<>>)
        \o (IF k2 # 0 THEN <<buildTree(payments, payments[k2], depth + 1)>> ELSE <<>>)
  IN  treeNode(payment, children, depth)

\* roots.sort by payment.startTime, stable.
RECURSIVE insertByStartTime(_, _)
insertByStartTime(sorted, t) ==
  IF sorted = <<>> THEN <<t>>
  ELSE IF Head(sorted).payment.startTime - t.payment.startTime <= 0
       THEN <<Head(sorted)>> \o insertByStartTime(Tail(sorted), t)
       ELSE <<t>> \o sorted

RECURSIVE sortByStartTime(_)
sortByStartTime(trees) ==
  IF trees = <<>> THEN <<>>
  ELSE insertByStartTime(sortByStartTime(SubSeq(trees, 1, Len(trees) - 1)),
                         trees[Len(trees)])

\* The trees of the payments that have a shard reference and are no shard.
rootTrees(payments) ==
  LET isRoot(p) == (p.shard1Id >= 0 \/ p.shard2Id >= 0) /\ ~p.isShard
      roots == SelectSeq(payments, isRoot)
  IN  sortByStartTime([k \in 1..Len(roots) |-> buildTree(payments, roots[k], 0)])

\* A cached builder that forgets what building the first shard cached.
RECURSIVE buildTreeMemo_forgetful(_, _, _, _)
buildTreeMemo_forgetful(payments, payment, depth, cache) ==
  IF payment.id \in DOMAIN cache
  THEN [node |-> cache[payment.id], cache |-> cache]
  ELSE LET k1 == resolveShard(payments, payment.shard1Id)
           r1 == buildTreeMemo_forgetful(payments, payments[k1], depth + 1, cache)
           k2 == resolveShard(payments, payment.shard2Id)
           r2 == buildTreeMemo_forgetful(payments, payments[k2], depth + 1, cache)
           cache2 == IF k2 # 0 THEN r2.cache ELSE cache
           children == (IF k1 # 0 THEN <<r1.node>> ELSE <<>>)
                       \o (IF k2 # 0 THEN <<r2.node>> ELSE <<>>)
           node == treeNode(payment, children, depth)
       IN  [node |-> node, cache |-> (payment.id :> node) @@ cache2]

\* PaymentTree.buildTree with the cache keyed by payment id: the node and the
\* cache after the call.
RECURSIVE buildTreeMemo(_, _, _, _)
buildTreeMemo(payments, payment, depth, cache) ==
  IF payment.id \in DOMAIN cache
  THEN [node |-> cache[payment.id], cache |-> cache]
  ELSE LET k1 == resolveShard(payments, payment.shard1Id)
           r1 == buildTreeMemo(payments, payments[k1], depth + 1, cache)
           cache1 == IF k1 # 0 THEN r1.cache ELSE cache
           k2 == resolveShard(payments, payment.shard2Id)
           r2 == buildTreeMemo(payments, payments[k2], depth + 1, cache1)
           cache2 == IF k2 # 0 THEN r2.cache ELSE cache1
           children == (IF k1 # 0 THEN <<r1.node>> ELSE <<>>)
                       \o (IF k2 # 0 THEN <<r2.node>> ELSE <<>>)
           node == treeNode(payment, children, depth)
       IN  [node |-> node, cache |-> (payment.id :> node) @@ cache2]

\* The pre-build loop over the non-shard payments, in collection order.
RECURSIVE prebuild(_, _, _)
prebuild(payments, roots, cache) ==
  IF roots = <<>> THEN cache
  ELSE prebuild(payments, Tail(roots),
                buildTreeMemo(payments, Head(roots), 0, cache).cache)

treeCache(payments) ==
  LET notShard(p) == ~p.isShard
  IN  prebuild(payments, SelectSeq(payments, notShard), <<>>)

\* Success/fail tally of a tree (the status filter of the uncached tree).
RECURSIVE countStatus(_)
countStatus(node) ==
  IF Len(node.children) = 0
  THEN [success |-> IF node.payment.isSuccess THEN 1 ELSE 0,
        fail    |-> IF node.payment.isSuccess THEN 0 ELSE 1]
  ELSE [success |-> SumSeq([c \in 1..Len(node.children) |->
                              countStatus(node.children[c]).success]),
        fail    |-> SumSeq([c \in 1..Len(node.children) |->
                              countStatus(node.children[c]).fail])]

\* A tally that counts the payment of every node, inner nodes included.
RECURSIVE countTreeStatus_allNodes(_)
countTreeStatus_allNodes(node) ==
  [success |-> (IF node.payment.isSuccess THEN 1 ELSE 0)
               + SumSeq([c \in 1..Len(node.children) |->
                           countTreeStatus_allNodes(node.children[c]).success]),
   fail    |-> (IF node.payment.isSuccess THEN 0 ELSE 1)
               + SumSeq([c \in 1..Len(node.children) |->
                           countTreeStatus_allNodes(node.children[c]).fail])]

\* Success/fail tally of a tree (the cached tree).
RECURSIVE countTreeStatus(_)
countTreeStatus(node) ==
  IF Len(node.children) = 0
  THEN [success |-> IF node.payment.isSuccess THEN 1 ELSE 0,
        fail    |-> IF node.payment.isSuccess THEN 0 ELSE 1]
  ELSE [success |-> SumSeq([c \in 1..Len(node.children) |->
                              countTreeStatus(node.children[c]).success]),
        fail    |-> SumSeq([c \in 1..Len(node.children) |->
                              countTreeStatus(node.children[c]).fail])]

(***************************************************************************)
(* Entity aggregator.                                                      *)
(***************************************************************************)
\* Every attempt of every payment, in scan order.
allAttempts(payments) ==
  Flatten([k \in 1..Len(payments) |-> payments[k].attemptsHistory])

\* Map.get of a map filled by set() in table order: the last entry with the
\* key, as its position, 0 when there is none.
edgeMapGet(edges, id) ==
  LET hits == {i \in 1..Len(edges) : edges[i].id = id}
  IN  IF hits = {} THEN 0 ELSE CHOOSE i \in hits : \A j \in hits : j <= i

\* Array.find: the first entry with the id, as its position, 0 for none.
findById(table, id) ==
  LET hits == {i \in 1..Len(table) : table[i].id = id}
  IN  IF hits = {} THEN 0 ELSE CHOOSE i \in hits : \A j \in hits : i <= j

\* Edge statistics that count an edge once per attempt that uses it.
edgeStats_oncePerAttempt(edges, payments) ==
  LET attempts == allAttempts(payments)
      usageCounts(id) ==
        LET uses(attempt) ==
              \E h \in 1..Len(attempt.route) : attempt.route[h].edge_id = id
        IN  Count(attempts, uses)
      failureCounts(id) ==
        LET hit(attempt) == Truthy(attempt.error_edge) /\ attempt.error_edge > 0
                            /\ attempt.error_edge = id
        IN  Count(attempts, hit)
  IN  [i \in 1..Len(edges) |->
         [edge         |-> edges[i],
          usageCount   |-> usageCounts(edges[i].id),
          failureCount |-> failureCounts(edges[i].id)]]

\* EdgeList.edgeStats: one entry per edge of the table.
edgeStats(edges, payments) ==
  LET attempts == allAttempts(payments)
      usageCounts(id) ==
        SumSeq([a \in 1..Len(attempts) |->
                  LET hit(hop) == hop.edge_id = id
                  IN  Count(attempts[a].route, hit)])
      failureCounts(id) ==
        LET hit(attempt) == Truthy(attempt.error_edge) /\ attempt.error_edge > 0
                            /\ attempt.error_edge = id
        IN  Count(attempts, hit)
  IN  [i \in 1..Len(edges) |->
         [edge         |-> edges[i],
          usageCount   |-> usageCounts(edges[i].id),
          failureCount |-> failureCounts(edges[i].id)]]

\* EdgeDetail.usageStats for the edge shown (edgeId nullable).
EdgeDetail_usageStats(edgeId, edges, payments) ==
  LET k == IF edgeId = Null THEN 0 ELSE findById(edges, edgeId[1])
      attempts == allAttempts(payments)
  IN  IF k = 0 THEN [usageCount |-> 0, failureCount |-> 0]
      ELSE [usageCount |->
              SumSeq([a \in 1..Len(attempts) |->
                        LET hit(hop) == hop.edge_id = edges[k].id
                        IN  Count(attempts[a].route, hit)]),
            failureCount |->
              LET hit(attempt) == attempt.error_edge = edges[k].id
              IN  Count(attempts, hit)]

\* ChannelList.channelStats: one entry per channel of the table.
channelStats(channels, edges, payments) ==
  LET attempts == allAttempts(payments)
      usageCounts(id) ==
        SumSeq([a \in 1..Len(attempts) |->
                  LET hit(hop) == /\ edgeMapGet(edges, hop.edge_id) # 0
                                  /\ edges[edgeMapGet(edges, hop.edge_id)].channelId = id
                  IN  Count(attempts[a].route, hit)])
      failureCounts(id) ==
        LET hit(attempt) ==
              /\ Truthy(attempt.error_edge) /\ attempt.error_edge > 0
              /\ edgeMapGet(edges, attempt.error_edge) # 0
              /\ edges[edgeMapGet(edges, attempt.error_edge)].channelId = id
        IN  Count(attempts, hit)
  IN  [i \in 1..Len(channels) |->
         [channel      |-> channels[i],
          usageCount   |-> usageCounts(channels[i].id),
          failureCount |-> failureCounts(channels[i].id)]]

\* ChannelDetail.usageStats for the channel shown (channelId nullable).
ChannelDetail_usageStats(channelId, channels, payments) ==
  LET k == IF channelId = Null THEN 0 ELSE findById(channels, channelId[1])
      attempts == allAttempts(payments)
  IN  IF k = 0 THEN [usageCount |-> 0, failureCount |-> 0]
      ELSE LET edgeIds == {channels[k].edge1, channels[k].edge2}
               usedInAttempt(attempt) ==
                 \E h \in 1..Len(attempt.route) : attempt.route[h].edge_id \in edgeIds
               failed(attempt) ==
                 attempt.error_edge > 0 /\ attempt.error_edge \in edgeIds
           IN  [usageCount   |-> Count(attempts, usedInAttempt),
                failureCount |-> Count(attempts, failed)]

(***************************************************************************)
(* Input tables the loader can hand over.                                  *)
(***************************************************************************)
EdgeRow(id, channel, from, to) ==
  [id |-> id, channel_id |-> channel, from_node_id |-> from, to_node_id |-> to]

ChannelRow(id, e1, e2, n1, n2) ==
  [id |-> id, edge1 |-> e1, edge2 |-> e2, node1 |-> n1, node2 |-> n2]

\* A nodes row whose open_edges is the text of a list of edge ids.
NodeRow(id, openEdges) == [id |-> id, open_edges |-> join(openEdges, "-")]

\* One channel 0 between nodes 0 and 1, with its edges 0 and 1.
Net1 ==
  [nodes    |-> <<NodeRow(0, <<0>>), NodeRow(1, <<1>>)>>,
   edges    |-> <<EdgeRow(0, 0, 0, 1), EdgeRow(1, 0, 1, 0)>>,
   channels |-> <<ChannelRow(0, 0, 1, 0, 1)>>]

\* A second channel 1 between nodes 1 and 2, with its edges 2 and 3.
Net2 ==
  [nodes    |-> <<NodeRow(0, <<0>>), NodeRow(1, <<1, 2>>), NodeRow(2, <<3>>)>>,
   edges    |-> Net1.edges \o <<EdgeRow(2, 1, 1, 2), EdgeRow(3, 1, 2, 1)>>,
   channels |-> Net1.channels \o <<ChannelRow(1, 2, 3, 1, 2)>>]

HopsOf(ids) == [h \in 1..Len(ids) |-> [edge_id |-> ids[h]]]

\* Attempt records that vary in their times and in which events they yield.
TimingAttempts ==
  [is_succeeded : {0, 1}, end_time : {100, 200}, error_edge : {1},
   route : {HopsOf(<<>>), HopsOf(<<1>>)}]

\* Attempt records that vary in outcome, error edge and route.
ContentAttempts ==
  [is_succeeded : {0, 1}, end_time : {100}, error_edge : {0, 1, 2},
   route : {HopsOf(<<>>), HopsOf(<<1>>), HopsOf(<<1, 0>>)}]

PaymentRow(id, start, history) ==
  [id               |-> id,
   sender_id        |-> 0,
   receiver_id      |-> 1,
   amount           |-> 1000,
   start_time       |-> start,
   is_shard         |-> "0",
   shard1_id        |-> -1,
   shard2_id        |-> -1,
   is_success       |-> IF \E a \in 1..Len(history) : history[a].is_succeeded = 1
                        THEN "1" ELSE "0",
   route            |-> <<>>,
   attempts_history |-> JsonText(history)]

\* The payments table of n rows (ids 0..n-1) whose row i starts at starts[i]
\* and has the next counts[i] attempts of the sequence attempts as history.
PaymentTable(n, starts, counts, attempts) ==
  [i \in 1..n |->
     LET before == SumSeq([j \in 1..(i - 1) |-> counts[j]])
     IN  PaymentRow(i - 1, starts[i],
                    [a \in 1..counts[i] |-> attempts[before + a]])]

RawData(net, paymentRows) ==
  [nodesContent    |-> net.nodes,
   channelsContent |-> net.channels,
   edgesContent    |-> net.edges,
   paymentsContent |-> paymentRows,
   configContent   |-> <<>>]

(***************************************************************************)
(* Application state (App).                                                *)
(***************************************************************************)
VARIABLES
  data,                 \* the session, or NoData
  loadSource,           \* nullable: where the session was loaded from
  currentStepIndex,
  selectedPayment,      \* nullable: id of the selected payment
  selectedAttemptIndex, \* nullable
  viewMode,
  selectedNodeId,       \* nullable
  selectedChannelId,    \* nullable
  selectedEdgeId,       \* nullable
  isReloading,
  fetches,              \* the reloads whose fetches are in flight
  error,                \* nullable: the failure notice of the loader
  alerted,              \* nullable: the failure notice of the last alert
  files,                \* nullable: the contents of the files selected in the loader
  isPlaying,            \* TimelineControl
  playSpeed,            \* TimelineControl
  timers                \* the live interval timers, oldest first

vars == <<data, loadSource, currentStepIndex, selectedPayment, selectedAttemptIndex,
          viewMode, selectedNodeId, selectedChannelId, selectedEdgeId,
          isReloading, fetches, error, alerted, files, isPlaying, playSpeed, timers>>

\* useState(500): ms between steps
DefaultPlaySpeed == 500

\* The timeline control is rendered in the network view of a session.
TimelineControlMounted == data.present /\ viewMode = "network"

\* clearInterval by the cleanup of the auto-play effect: the effect that ran
\* while playing made the newest timer, and its cleanup cancels that one.
clearInterval_leak(ts) == ts

clearInterval(ts) ==
  IF TimelineControlMounted /\ isPlaying /\ ts # <<>>
  THEN SubSeq(ts, 1, Len(ts) - 1) ELSE ts

\* A timer's callback closes over the step index and the event count of the
\* render that made it.
intervalCallback(stepIndex, events) ==
  [currentStepIndex |-> stepIndex, length |-> Len(events)]

\* The render that follows a state update, as far as the timeline control
\* goes: (un)mounting, and the auto-play effect when one of its dependencies
\* changed.  Mounting starts from the initial state; unmounting runs the
\* cleanup.  To be used after the conjuncts that set data', viewMode' and
\* currentStepIndex'.
renderTimelineControl(playing, speed, depsChanged) ==
  IF data'.present /\ viewMode' = "network"
  THEN IF TimelineControlMounted
       THEN /\ isPlaying' = playing
            /\ playSpeed' = speed
            /\ timers' = IF depsChanged
                         THEN clearInterval(timers)
                              \o (IF playing
                                  THEN <<intervalCallback(currentStepIndex', data'.events)>>
                                  ELSE <<>>)
                         ELSE timers
       ELSE /\ isPlaying' = FALSE
            /\ playSpeed' = DefaultPlaySpeed
            /\ timers' = timers
  ELSE /\ isPlaying' = FALSE
       /\ playSpeed' = DefaultPlaySpeed
       /\ timers' = clearInterval(timers)

NoData == [present |-> FALSE]

ViewModes == {"overview", "network", "gantt", "tree", "nodes", "channels", "edges"}

Init ==
  /\ data = NoData
  /\ loadSource = Null
  /\ currentStepIndex = 0
  /\ selectedPayment = Null
  /\ selectedAttemptIndex = Null
  /\ viewMode = "overview"
  /\ selectedNodeId = Null
  /\ selectedChannelId = Null
  /\ selectedEdgeId = Null
  /\ isReloading = FALSE
  /\ fetches = 0
  /\ error = Null
  /\ alerted = Null
  /\ files = Null
  /\ isPlaying = FALSE
  /\ playSpeed = DefaultPlaySpeed
  /\ timers = <<>>

handleDataLoaded_staleEvents(rawData, source) ==
  /\ data' = LET payments == parsePayments(rawData.paymentsContent)
             IN  [present  |-> TRUE,
                  nodes    |-> parseNodes(rawData.nodesContent),
                  channels |-> parseChannels(rawData.channelsContent),
                  edges    |-> parseEdges(rawData.edgesContent),
                  payments |-> payments,
                  config   |-> parseConfig(rawData.configContent),
                  events   |-> IF data.present THEN data.events
                               ELSE generateTimelineEvents(payments)]
  /\ loadSource' = IF source # Null THEN source ELSE loadSource
  /\ currentStepIndex' = 0
  /\ selectedPayment' = Null
  /\ UNCHANGED <<selectedAttemptIndex, viewMode, selectedNodeId, selectedChannelId,
                 selectedEdgeId>>
  /\ renderTimelineControl(isPlaying, playSpeed, TRUE)

handleDataLoaded(rawData, source) ==
  /\ data' = LET payments == parsePayments(rawData.paymentsContent)
             IN  [present  |-> TRUE,
                  nodes    |-> parseNodes(rawData.nodesContent),
                  channels |-> parseChannels(rawData.channelsContent),
                  edges    |-> parseEdges(rawData.edgesContent),
                  payments |-> payments,
                  config   |-> parseConfig(rawData.configContent),
                  events   |-> generateTimelineEvents(payments)]
  /\ loadSource' = IF source # Null THEN source ELSE loadSource
  /\ currentStepIndex' = 0
  /\ selectedPayment' = Null
  /\ UNCHANGED <<selectedAttemptIndex, viewMode, selectedNodeId, selectedChannelId,
                 selectedEdgeId>>
  /\ renderTimelineControl(isPlaying, playSpeed, TRUE)

\* The loader hands its tables over and is unmounted by the session.
DataLoader_onDataLoaded(rawData, source) ==
  /\ ~data.present
  /\ handleDataLoaded(rawData, source)
  /\ error' = Null
  /\ files' = Null
  /\ UNCHANGED <<isReloading, fetches, alerted>>

handleReset ==
  /\ data.present
  /\ data' = NoData
  /\ loadSource' = Null
  /\ currentStepIndex' = 0
  /\ selectedPayment' = Null
  /\ selectedAttemptIndex' = Null
  /\ selectedNodeId' = Null
  /\ selectedChannelId' = Null
  /\ selectedEdgeId' = Null
  /\ UNCHANGED <<viewMode, isReloading, fetches, error, alerted, files>>
  /\ renderTimelineControl(isPlaying, playSpeed, TRUE)

\* The loader is shown while there is no session; it hands over what it read:
\* a network and a payments table of at most MaxPayments rows with at most
\* MaxAttempts attempts in all.
LoadTables(net, Starts, Attempts) ==
  /\ ~data.present
  /\ \E n \in 0..MaxPayments :
       \E counts \in [1..n -> 0..MaxAttempts] :
         /\ SumSeq(counts) <= MaxAttempts
         /\ \E starts \in [1..n -> Starts] :
              \E attempts \in [1..SumSeq(counts) -> Attempts] :
                DataLoader_onDataLoaded(
                  RawData(net, PaymentTable(n, starts, counts, attempts)),
                  Some("files"))

LoadTimeline ==
  \/ LoadTables(Net1, {0, 100}, TimingAttempts)
  \/ LoadTables(Net1, {0}, ContentAttempts)

NextTimeline == LoadTimeline \/ handleReset

SpecTimeline == Init /\ [][NextTimeline]_vars

(***************************************************************************)
(* Timeline event deriver: properties.                                     *)
(***************************************************************************)
\* Position of the payment with the id in the session's collection.
paymentPos(id) == findById(data.payments, id)

\* Events of attempt number i (1-based) of payment p with a type from Types.
eventsOfAttempt(p, i, Types) ==
  LET mine(e) == /\ e.type \in Types
                 /\ e.paymentId = p.id
                 /\ e.attemptIndex = i - 1
  IN  SelectSeq(data.events, mine)

\* The place of an event in generation order: payment position, then attempt
\* position (the start event first), then attempt event before terminal event.
genRank(e) ==
  <<paymentPos(e.paymentId),
    IF e.type = "payment_start" THEN 0 ELSE e.attemptIndex + 1,
    IF e.type \in {"payment_start", "payment_attempt"} THEN 0 ELSE 1>>

genBefore(a, b) ==
  \/ genRank(a)[1] < genRank(b)[1]
  \/ genRank(a)[1] = genRank(b)[1] /\ genRank(a)[2] < genRank(b)[2]
  \/ genRank(a)[1] = genRank(b)[1] /\ genRank(a)[2] = genRank(b)[2]
     /\ genRank(a)[3] < genRank(b)[3]

\* C1: the events of a session are in ascending time order, and events of
\* equal time stand in generation order (payments in collection order; per
\* payment the start event, then per attempt its attempt event and then its
\* terminal event).
C1_SortedStable ==
  data.present =>
    /\ \A i \in 1..(Len(data.events) - 1) : data.events[i].time <= data.events[i + 1].time
    /\ \A i, j \in 1..Len(data.events) :
         (i < j /\ data.events[i].time = data.events[j].time)
           => genBefore(data.events[i], data.events[j])

\* C1 witness: the sort had to move events, and two payments have events of
\* the same time.
C1_Witness ==
  /\ data.present
  /\ data.events # pushedEvents(data.payments)
  /\ \E i \in 1..(Len(data.events) - 1) :
       /\ data.events[i].time = data.events[i + 1].time
       /\ data.events[i].paymentId # data.events[i + 1].paymentId

\* C2: there is exactly one payment_start event per payment, at the payment's
\* startTime, and as many start events as payments.
C2_OneStartPerPayment ==
  data.present =>
    LET isStart(e) == e.type = "payment_start"
    IN  /\ Count(data.events, isStart) = Len(data.payments)
        /\ \A k \in 1..Len(data.payments) :
             LET startOfK(e) == /\ e.type = "payment_start"
                                /\ e.paymentId = data.payments[k].id
                                /\ e.time = data.payments[k].startTime
             IN  Count(data.events, startOfK) = 1

\* C2 witness: two payments, one of them without attempts.
C2_Witness ==
  /\ data.present
  /\ Len(data.payments) = 2
  /\ \E k \in 1..2 : data.payments[k].attemptsHistory = <<>>
  /\ \E k \in 1..2 : data.payments[k].attemptsHistory # <<>>

\* C3 (as claimed): every attempt has at most one terminal event: success
\* with the attempt's hop edge ids if it succeeded, else fail with errorEdge
\* = error_edge if error_edge is the id of an edge of the edge table, else
\* none.
C3_TerminalByEdgeTable ==
  data.present =>
    \A k \in 1..Len(data.payments) :
      \A i \in 1..Len(data.payments[k].attemptsHistory) :
        LET attempt == data.payments[k].attemptsHistory[i]
            terminal == eventsOfAttempt(data.payments[k], i,
                                        {"payment_success", "payment_fail"})
        IN  IF Truthy(attempt.is_succeeded)
            THEN /\ Len(terminal) = 1
                 /\ terminal[1].type = "payment_success"
                 /\ terminal[1].routeEdges = routeEdgeIds(attempt.route)
            ELSE IF \E e \in 1..Len(data.edges) : data.edges[e].id = attempt.error_edge
            THEN /\ Len(terminal) = 1
                 /\ terminal[1].type = "payment_fail"
                 /\ terminal[1].errorEdge = attempt.error_edge
            ELSE terminal = <<>>

\* C4: an attempt has a payment_attempt event iff its route is non-empty;
\* then exactly one, at end_time - 100, with the attempt's position as
\* attemptIndex and the hop edge ids in route order; and there is no other
\* payment_attempt event.
C4_AttemptEvents ==
  data.present =>
    /\ \A k \in 1..Len(data.payments) :
         \A i \in 1..Len(data.payments[k].attemptsHistory) :
           LET attempt == data.payments[k].attemptsHistory[i]
               started == eventsOfAttempt(data.payments[k], i, {"payment_attempt"})
           IN  IF Len(attempt.route) > 0
               THEN /\ Len(started) = 1
                    /\ started[1].time = attempt.end_time - 100
                    /\ Len(started[1].routeEdges) = Len(attempt.route)
                    /\ \A h \in 1..Len(attempt.route) :
                         started[1].routeEdges[h] = attempt.route[h].edge_id
               ELSE started = <<>>
    /\ \A n \in 1..Len(data.events) :
         data.events[n].type = "payment_attempt" =>
           /\ paymentPos(data.events[n].paymentId) # 0
           /\ data.events[n].attemptIndex + 1 \in
                1..Len(data.payments[paymentPos(data.events[n].paymentId)].attemptsHistory)

\* C4 witness: a payment with a routed attempt over two hops and a route-less
\* attempt.
C4_Witness ==
  /\ data.present
  /\ \E k \in 1..Len(data.payments) :
       LET h == data.payments[k].attemptsHistory
       IN  /\ Len(h) = 2
           /\ Len(h[1].route) = 0
           /\ Len(h[2].route) = 2
           /\ h[2].route[1].edge_id # h[2].route[2].edge_id

(***************************************************************************)
(* Payments tables with shard references.                                  *)
(***************************************************************************)
ForestRow(id, shard1, shard2, isShard, isSuccess) ==
  [id               |-> id,
   sender_id        |-> 0,
   receiver_id      |-> 1,
   amount           |-> 1000 * (2 ^ id),
   start_time       |-> 1000 - 100 * id,
   is_shard         |-> isShard,
   shard1_id        |-> shard1,
   shard2_id        |-> shard2,
   is_success       |-> isSuccess,
   route            |-> <<>>,
   attempts_history |-> JsonText(<<>>)]

refCost(shardId) == IF shardId = -1 THEN 0 ELSE 1

\* The payments table of n rows (ids 0..n-1) with the shard ids refs[i] and
\* the flags of row i.
ForestTable(n, refs, isShard, isSuccess) ==
  [i \in 1..n |-> ForestRow(i - 1, refs[i][1], refs[i][2], isShard[i], isSuccess[i])]

\* The ids reachable from the ids of S over at most k shard references.
RECURSIVE shardReach(_, _, _)
shardReach(rows, S, k) ==
  IF k = 0 THEN S
  ELSE shardReach(rows,
                  S \cup {id \in 0..(Len(rows) - 1) :
                            \E i \in 1..Len(rows) :
                              /\ rows[i].id \in S
                              /\ id \in {rows[i].shard1_id, rows[i].shard2_id}},
                  k - 1)

\* No row reaches itself over shard references.
Acyclic(rows) ==
  \A i \in 1..Len(rows) :
    rows[i].id \notin
      shardReach(rows,
                 {rows[i].shard1_id, rows[i].shard2_id} \cap (0..(Len(rows) - 1)),
                 Len(rows))

(***************************************************************************)
(* The payment tree view.                                                  *)
(***************************************************************************)
handleViewModeChange(mode) ==
  /\ data.present
  /\ viewMode' = mode
  /\ UNCHANGED <<data, loadSource, currentStepIndex, selectedPayment,
                 selectedAttemptIndex, selectedNodeId, selectedChannelId, selectedEdgeId,
                 isReloading, fetches, error, alerted, files>>
  /\ renderTimelineControl(isPlaying, playSpeed, FALSE)

\* What the mounted PaymentTree holds: the root trees of the uncached builder
\* and the tree cache of the cached builder.
PaymentTree_rootTrees ==
  IF data.present /\ viewMode = "tree" THEN rootTrees(data.payments) ELSE <<>>

PaymentTree_treeCache ==
  IF data.present /\ viewMode = "tree" THEN treeCache(data.payments) ELSE <<>>

\* The loader hands over a payments table of at most MaxForest rows with at
\* most MaxShardRefs shard references, none of which closes a cycle; a shard
\* id is -1, the id of a row, or n, the id of no row.  Either is_shard marks
\* exactly the rows another row refers to and is_success is free, or is_shard
\* is free and every row succeeded.
LoadForest ==
  /\ ~data.present
  /\ \E n \in 0..MaxForest :
       \E refs \in [1..n -> (-1..n) \X (-1..n)] :
         /\ SumSeq([i \in 1..n |-> refCost(refs[i][1]) + refCost(refs[i][2])])
              <= MaxShardRefs
         /\ Acyclic(ForestTable(n, refs, [i \in 1..n |-> "0"], [i \in 1..n |-> "0"]))
         /\ \E flags \in [1..n -> {"0", "1"}] :
              LET referred ==
                    [i \in 1..n |->
                       IF \E j \in 1..n : i - 1 \in {refs[j][1], refs[j][2]}
                       THEN "1" ELSE "0"]
              IN  \/ DataLoader_onDataLoaded(
                       RawData(Net1, ForestTable(n, refs, referred, flags)),
                       Some("files"))
                  \/ DataLoader_onDataLoaded(
                       RawData(Net1, ForestTable(n, refs, flags, [i \in 1..n |-> "1"])),
                       Some("files"))

ShowTree == \E mode \in {"overview", "tree"} : handleViewModeChange(mode)

NextForest == LoadForest \/ ShowTree \/ handleReset

SpecForest == Init /\ [][NextForest]_vars

(***************************************************************************)
(* Payment forest builder: properties.                                     *)
(***************************************************************************)
\* The tree nodes of a tree: the node and the nodes below it.
RECURSIVE treeNodes(_)
treeNodes(t) == {t} \cup UNION {treeNodes(t.children[c]) : c \in 1..Len(t.children)}

\* Every tree node the mounted payment tree holds, of either builder.
ForestNodes ==
  LET trees == PaymentTree_rootTrees
      cache == PaymentTree_treeCache
  IN  UNION {treeNodes(trees[k]) : k \in 1..Len(trees)}
      \cup UNION {treeNodes(cache[id]) : id \in DOMAIN cache}

\* The shard ids of a payment that are the id of a payment of the session, in
\* the order shard1Id, shard2Id.
resolvedShardIds(payment) ==
  LET resolves(id) == id >= 0 /\ \E k \in 1..Len(data.payments) : data.payments[k].id = id
  IN  (IF resolves(payment.shard1Id) THEN <<payment.shard1Id>> ELSE <<>>)
      \o (IF resolves(payment.shard2Id) THEN <<payment.shard2Id>> ELSE <<>>)

\* The payments at the leaves of a tree, left to right.
RECURSIVE leafPayments(_)
leafPayments(t) ==
  IF Len(t.children) = 0 THEN <<t.payment>>
  ELSE Flatten([c \in 1..Len(t.children) |-> leafPayments(t.children[c])])

\* C5: a tree node of a payment with a resolved shard has the sums of its
\* children's leafCount and totalLeafAmount; a tree node of a payment without
\* one has leafCount 1 and its payment's amount as totalLeafAmount.
C5_LeafAggregates ==
  viewMode = "tree" => \A t \in ForestNodes :
    IF resolvedShardIds(t.payment) # <<>>
    THEN /\ Len(t.children) >= 1
         /\ t.leafCount = SumSeq([c \in 1..Len(t.children) |-> t.children[c].leafCount])
         /\ t.totalLeafAmount =
              SumSeq([c \in 1..Len(t.children) |-> t.children[c].totalLeafAmount])
    ELSE /\ t.leafCount = 1
         /\ t.totalLeafAmount = t.payment.amount

\* C5 witness: a built tree of a payment with two shards, one of which is
\* split again or both of which are leaves, so that leafCount is 2.
C5_Witness ==
  \E t \in ForestNodes :
    /\ Len(t.children) = 2
    /\ t.leafCount = 2
    /\ t.totalLeafAmount = t.children[1].payment.amount + t.children[2].payment.amount
    /\ t.children[1].payment.id # t.children[2].payment.id

\* C6: the tally of a tree counts its leaves only: success is the number of
\* leaves whose payment succeeded, fail the number of the other leaves, so a
\* leaf tallies (1, 0) or (0, 1), a node with children tallies the sum of its
\* children, and success + fail = leafCount.
C6_TallyCountsLeaves ==
  viewMode = "tree" => \A t \in ForestNodes :
    LET succeeded(p) == p.isSuccess
        failed(p) == ~p.isSuccess
        expected == [success |-> Count(leafPayments(t), succeeded),
                     fail    |-> Count(leafPayments(t), failed)]
    IN  /\ countTreeStatus(t) = expected
        /\ countStatus(t) = expected
        /\ countTreeStatus(t).success + countTreeStatus(t).fail = t.leafCount
        /\ countStatus(t).success + countStatus(t).fail = t.leafCount

\* C6 witness: a tree whose root payment failed and whose two leaves are one
\* success and one failure.
C6_Witness ==
  \E t \in ForestNodes :
    /\ Len(t.children) = 2
    /\ ~t.payment.isSuccess
    /\ countTreeStatus(t) = [success |-> 1, fail |-> 1]
    /\ t.children[1].payment.isSuccess

\* C7: a shard id that is negative or the id of no payment yields no child:
\* childShards of a parsed payment lists exactly the resolved shard ids and
\* stays unset when there is none; the children of a tree node are the nodes
\* of exactly the resolved shard ids, every node is the node of a payment of
\* the session, and a payment without a resolved shard id is a leaf.
C7_UnresolvedShardIsAbsent ==
  data.present =>
    /\ \A k \in 1..Len(data.payments) :
         data.payments[k].childShards =
           IF resolvedShardIds(data.payments[k]) = <<>> THEN Null
           ELSE Some(resolvedShardIds(data.payments[k]))
    /\ \A t \in ForestNodes :
         /\ \E k \in 1..Len(data.payments) : t.payment = data.payments[k]
         /\ [c \in 1..Len(t.children) |-> t.children[c].payment.id]
              = resolvedShardIds(t.payment)
         /\ resolvedShardIds(t.payment) = <<>> =>
              (t.children = <<>> /\ t.leafCount = 1)

\* C7 witness: the tree view shows a payment whose only shard id is the id of
\* no payment, and a payment with one resolved and one negative shard id.
C7_Witness ==
  /\ \E t \in ForestNodes :
       /\ t.payment.shard1Id >= 0
       /\ t.payment.shard2Id = -1
       /\ t.children = <<>>
       /\ t.payment.childShards = Null
  /\ \E t \in ForestNodes :
       /\ t.payment.shard1Id = -1
       /\ Len(t.children) = 1

(***************************************************************************)
(* The entity lists and details.                                           *)
(***************************************************************************)
\* Attempt records as the aggregator reads them: a succeeded attempt without
\* an error edge, or a failed one with an error edge; edge 5 is in no table.
AggregatorRoutes ==
  {HopsOf(<<>>), HopsOf(<<0>>), HopsOf(<<0, 1, 0>>), HopsOf(<<2, 0>>), HopsOf(<<5>>)}

AggregatorAttempts ==
  [is_succeeded : {1}, end_time : {100}, error_edge : {-1}, route : AggregatorRoutes]
  \cup [is_succeeded : {0}, end_time : {100}, error_edge : {0, 2, 5},
        route : AggregatorRoutes]

LoadAggregator == LoadTables(Net2, {0}, AggregatorAttempts)

\* What the edge list and the channel list show for the session.
EdgeList_edgeStats ==
  IF data.present THEN edgeStats(data.edges, data.payments) ELSE <<>>

ChannelList_channelStats ==
  IF data.present THEN channelStats(data.channels, data.edges, data.payments) ELSE <<>>

\* What the edge detail and the channel detail show for a selected id.
EdgeDetail_shown(edgeId) == EdgeDetail_usageStats(Some(edgeId), data.edges, data.payments)

ChannelDetail_shown(channelId) ==
  ChannelDetail_usageStats(Some(channelId), data.channels, data.payments)

NextAggregator == LoadAggregator \/ handleReset

SpecAggregator == Init /\ [][NextAggregator]_vars

(***************************************************************************)
(* Entity aggregator: properties.                                          *)
(***************************************************************************)
\* The route hops of the session whose edge id is in ids: payment position,
\* attempt position, hop position.
hopsOver(ids) ==
  {x \in UNION {UNION {{<<k, i, h>> :
                          h \in 1..Len(data.payments[k].attemptsHistory[i].route)} :
                       i \in 1..Len(data.payments[k].attemptsHistory)} :
                k \in 1..Len(data.payments)} :
     data.payments[x[1]].attemptsHistory[x[2]].route[x[3]].edge_id \in ids}

\* The attempts of the session whose error_edge is in ids.
attemptsFailedAt(ids) ==
  {x \in UNION {{<<k, i>> : i \in 1..Len(data.payments[k].attemptsHistory)} :
                k \in 1..Len(data.payments)} :
     data.payments[x[1]].attemptsHistory[x[2]].error_edge \in ids}

\* C8: the usage count of an edge, in the edge list and in the edge detail,
\* is the number of route hops over the edge in all attempts of all payments,
\* every occurrence counted; an edge on the route of the only attempt of a
\* payment has a usage count of at least 1.
C8_EdgeUsage ==
  data.present =>
    \A e \in 1..Len(data.edges) :
      LET id == data.edges[e].id
      IN  /\ EdgeList_edgeStats[e].edge = data.edges[e]
          /\ EdgeList_edgeStats[e].usageCount = Cardinality(hopsOver({id}))
          /\ EdgeDetail_shown(id).usageCount = Cardinality(hopsOver({id}))
          /\ (\E k \in 1..Len(data.payments) :
                /\ Len(data.payments[k].attemptsHistory) = 1
                /\ \E h \in 1..Len(data.payments[k].attemptsHistory[1].route) :
                     data.payments[k].attemptsHistory[1].route[h].edge_id = id)
               => /\ EdgeList_edgeStats[e].usageCount >= 1
                  /\ EdgeDetail_shown(id).usageCount >= 1

\* C8 witness: an edge crossed twice by one attempt and once more by an
\* attempt of another payment, so that its usage count is above the number
\* of attempts.
C8_Witness ==
  /\ data.present
  /\ Len(data.payments) = 2
  /\ \A k \in 1..2 : Len(data.payments[k].attemptsHistory) = 1
  /\ \E e \in 1..Len(data.edges) :
       /\ EdgeList_edgeStats[e].usageCount = 3
       /\ EdgeDetail_shown(data.edges[e].id).usageCount = 3

\* C9 (as claimed): the failure count of an edge, whatever its id, is in the
\* edge list and in the edge detail the number of attempts whose error_edge
\* is the edge's id.
C9_EdgeFailures ==
  data.present =>
    \A e \in 1..Len(data.edges) :
      LET id == data.edges[e].id
      IN  /\ EdgeList_edgeStats[e].failureCount = Cardinality(attemptsFailedAt({id}))
          /\ EdgeDetail_shown(id).failureCount = Cardinality(attemptsFailedAt({id}))

\* C10 (as claimed): the usage and failure counts of a channel, in the
\* channel list and in the channel detail, are the sums of the counts of its
\* two edges: the number of route hops over an edge of the channel, and the
\* number of attempts whose error_edge is an edge of the channel.
C10_ChannelCounts ==
  data.present =>
    \A c \in 1..Len(data.channels) :
      LET ids == {data.channels[c].edge1, data.channels[c].edge2}
          id == data.channels[c].id
      IN  /\ ChannelList_channelStats[c].usageCount = Cardinality(hopsOver(ids))
          /\ ChannelDetail_shown(id).usageCount = Cardinality(hopsOver(ids))
          /\ ChannelList_channelStats[c].failureCount = Cardinality(attemptsFailedAt(ids))
          /\ ChannelDetail_shown(id).failureCount = Cardinality(attemptsFailedAt(ids))

(***************************************************************************)
(* Node statistics (NodeList, NodeDetail).                                 *)
(* A rate is the quotient num / den, kept as the pair of its terms.        *)
(***************************************************************************)
Quotient(num, den) == [num |-> num, den |-> den]

SameQuotient(a, b) == a.num * b.den = b.num * a.den

\* total > 0 ? success / total * 100 : 0
successRateOf(success, total) ==
  IF total > 0 THEN Quotient(success * 100, total) ELSE Quotient(0, 1)

\* Node statistics that count the shard payments as well.
nodeStats_withShards(nodes, channels, payments) ==
  LET firsts == {i \in 1..Len(nodes) : \A j \in 1..(i - 1) : nodes[j].id # nodes[i].id}
      nth(k) == CHOOSE i \in firsts : Cardinality({j \in firsts : j <= i}) = k
      last(id) == CHOOSE i \in 1..Len(nodes) :
                    /\ nodes[i].id = id
                    /\ \A j \in (i + 1)..Len(nodes) : nodes[j].id # id
      sentBy(id) == LET hit(p) == p.senderId = id IN Count(payments, hit)
      receivedBy(id) == LET hit(p) == p.receiverId = id IN Count(payments, hit)
      succeededBy(id) ==
        LET hit(p) == p.senderId = id /\ p.isSuccess IN Count(payments, hit)
      channelsOf(id) ==
        LET n1(ch) == ch.node1 = id
            n2(ch) == ch.node2 = id
        IN  Count(channels, n1) + Count(channels, n2)
  IN  [k \in 1..Cardinality(firsts) |->
         LET id == nodes[nth(k)].id
         IN  [nodeId           |-> id,
              edgeCount        |-> Len(nodes[last(id)].openEdges),
              channelCount     |-> channelsOf(id),
              paymentsSent     |-> sentBy(id),
              paymentsReceived |-> receivedBy(id),
              successRate      |-> successRateOf(succeededBy(id), sentBy(id))]]

\* NodeList.nodeStats: one entry per node id, in the order of the ids' first
\* rows, initialised from the last row with the id.
nodeStats(nodes, channels, payments) ==
  LET firsts == {i \in 1..Len(nodes) : \A j \in 1..(i - 1) : nodes[j].id # nodes[i].id}
      nth(k) == CHOOSE i \in firsts : Cardinality({j \in firsts : j <= i}) = k
      last(id) == CHOOSE i \in 1..Len(nodes) :
                    /\ nodes[i].id = id
                    /\ \A j \in (i + 1)..Len(nodes) : nodes[j].id # id
      sentBy(id) == LET hit(p) == ~p.isShard /\ p.senderId = id IN Count(payments, hit)
      receivedBy(id) ==
        LET hit(p) == ~p.isShard /\ p.receiverId = id IN Count(payments, hit)
      succeededBy(id) ==
        LET hit(p) == ~p.isShard /\ p.senderId = id /\ p.isSuccess
        IN  Count(payments, hit)
      channelsOf(id) ==
        LET n1(ch) == ch.node1 = id
            n2(ch) == ch.node2 = id
        IN  Count(channels, n1) + Count(channels, n2)
  IN  [k \in 1..Cardinality(firsts) |->
         LET id == nodes[nth(k)].id
         IN  [nodeId           |-> id,
              edgeCount        |-> Len(nodes[last(id)].openEdges),
              channelCount     |-> channelsOf(id),
              paymentsSent     |-> sentBy(id),
              paymentsReceived |-> receivedBy(id),
              successRate      |-> successRateOf(succeededBy(id), sentBy(id))]]

\* NodeDetail.nodePayments and stats for the node shown (nodeId nullable).
NodeDetail_stats(nodeId, nodes, payments) ==
  LET k == IF nodeId = Null THEN 0 ELSE findById(nodes, nodeId[1])
      sent(p) == k # 0 /\ ~p.isShard /\ p.senderId = nodes[k].id
      received(p) == k # 0 /\ ~p.isShard /\ p.receiverId = nodes[k].id
      sentOk(p) == sent(p) /\ p.isSuccess
      receivedOk(p) == received(p) /\ p.isSuccess
  IN  [sentSuccess        |-> Count(payments, sentOk),
       sentTotal          |-> Count(payments, sent),
       receivedSuccess    |-> Count(payments, receivedOk),
       receivedTotal      |-> Count(payments, received),
       sendSuccessRate    |-> successRateOf(Count(payments, sentOk), Count(payments, sent)),
       receiveSuccessRate |-> successRateOf(Count(payments, receivedOk),
                                            Count(payments, received))]

\* A payments row with its parties and flags; node 2 is no node of Net1.
PartyRow(id, sender, receiver, isShard, isSuccess) ==
  [id               |-> id,
   sender_id        |-> sender,
   receiver_id      |-> receiver,
   amount           |-> 1000,
   start_time       |-> 0,
   is_shard         |-> isShard,
   shard1_id        |-> -1,
   shard2_id        |-> -1,
   is_success       |-> isSuccess,
   route            |-> <<>>,
   attempts_history |-> JsonText(<<>>)]

LoadParties ==
  /\ ~data.present
  /\ \E n \in 0..MaxPayments :
       \E senders \in [1..n -> 0..2] :
         \E receivers \in [1..n -> 0..1] :
           \E isShard \in [1..n -> {"0", "1"}] :
             \E isSuccess \in [1..n -> {"0", "1"}] :
               DataLoader_onDataLoaded(
                 RawData(Net1, [i \in 1..n |->
                                  PartyRow(i - 1, senders[i], receivers[i],
                                           isShard[i], isSuccess[i])]),
                 Some("files"))

handleNodeSelect(nodeId) ==
  /\ data.present
  /\ selectedNodeId' = Some(nodeId)
  /\ viewMode' = IF viewMode # "network" THEN "nodes" ELSE viewMode
  /\ UNCHANGED <<data, loadSource, currentStepIndex, selectedPayment,
                 selectedAttemptIndex, selectedChannelId, selectedEdgeId,
                 isReloading, fetches, error, alerted, files>>
  /\ renderTimelineControl(isPlaying, playSpeed, FALSE)

\* The node list is shown in the nodes view; a click selects one of its nodes.
ShowNodes == handleViewModeChange("nodes")

SelectListedNode ==
  /\ data.present
  /\ viewMode = "nodes"
  /\ \E i \in 1..Len(data.nodes) : handleNodeSelect(data.nodes[i].id)

NodeList_nodeStats ==
  IF data.present /\ viewMode = "nodes"
  THEN nodeStats(data.nodes, data.channels, data.payments) ELSE <<>>

NodeDetail_shown == NodeDetail_stats(selectedNodeId, data.nodes, data.payments)

NextNodes == LoadParties \/ ShowNodes \/ SelectListedNode \/ handleReset

SpecNodes == Init /\ [][NextNodes]_vars

(***************************************************************************)
(* Node statistics: properties.                                            *)
(***************************************************************************)
\* The positions of the root payments sent (received) by a node.
rootsSentBy(n) ==
  {k \in 1..Len(data.payments) : ~data.payments[k].isShard /\ data.payments[k].senderId = n}

rootsReceivedBy(n) ==
  {k \in 1..Len(data.payments) :
     ~data.payments[k].isShard /\ data.payments[k].receiverId = n}

\* C11: for every node of the node list, paymentsSent and paymentsReceived are
\* the numbers of non-shard payments sent and received by the node, the
\* success rate is 100 * successful / sent over exactly those sent payments
\* (0 when there are none), and the node detail of the selected node shows
\* the same counts and the same rate.
C11_NodeStatsOverRoots ==
  (data.present /\ viewMode = "nodes") =>
    /\ Len(NodeList_nodeStats) = Len(data.nodes)
    /\ \A i \in 1..Len(NodeList_nodeStats) :
         LET stat == NodeList_nodeStats[i]
             sent == rootsSentBy(stat.nodeId)
             ok == {k \in sent : data.payments[k].isSuccess}
         IN  /\ stat.nodeId = data.nodes[i].id
             /\ stat.paymentsSent = Cardinality(sent)
             /\ stat.paymentsReceived = Cardinality(rootsReceivedBy(stat.nodeId))
             /\ IF sent = {} THEN stat.successRate.num = 0
                ELSE SameQuotient(stat.successRate,
                                  Quotient(100 * Cardinality(ok), Cardinality(sent)))
             /\ selectedNodeId = Some(stat.nodeId) =>
                  /\ NodeDetail_shown.sentTotal = stat.paymentsSent
                  /\ NodeDetail_shown.receivedTotal = stat.paymentsReceived
                  /\ SameQuotient(NodeDetail_shown.sendSuccessRate, stat.successRate)

\* C11 witness: the selected node sent a succeeded root payment and a shard
\* payment, so that its one sent payment has a rate of 100.
C11_Witness ==
  /\ data.present /\ viewMode = "nodes"
  /\ \E i \in 1..Len(NodeList_nodeStats) :
       LET stat == NodeList_nodeStats[i]
       IN  /\ selectedNodeId = Some(stat.nodeId)
           /\ stat.paymentsSent = 1
           /\ SameQuotient(stat.successRate, Quotient(100, 1))
           /\ NodeDetail_shown.sentTotal = 1
           /\ \E k \in 1..Len(data.payments) :
                data.payments[k].isShard /\ data.payments[k].senderId = stat.nodeId

(***************************************************************************)
(* Payment selection and the timeline control (TimelineControl).           *)
(* Step indexes are zero-based as in the program: the event at step i is   *)
(* data.events[i + 1].                                                     *)
(***************************************************************************)
\* App.handlePaymentSelect, as far as the selections go (payment nullable).
handlePaymentSelect(payment) ==
  /\ selectedPayment' = payment
  /\ selectedAttemptIndex' = Null
  /\ selectedNodeId' = Null
  /\ selectedChannelId' = Null
  /\ selectedEdgeId' = Null

\* payments.find(p => p.id === events[index].paymentId), then onPaymentSelect
\* if there is such a payment.  With no event at the index the find returns
\* undefined (no payments) or events[index].paymentId throws and ends the
\* handler: nothing is selected either way.
selectPaymentOfEvent(index) ==
  LET k == IF index + 1 \in DOMAIN data.events
           THEN findById(data.payments, data.events[index + 1].paymentId)
           ELSE 0
  IN  IF k # 0
      THEN handlePaymentSelect(Some(data.payments[k].id))
      ELSE UNCHANGED <<selectedPayment, selectedAttemptIndex, selectedNodeId,
                       selectedChannelId, selectedEdgeId>>

\* What no handler of the timeline control touches, and the render after it.
timelineControlFrame(playing, speed) ==
  /\ UNCHANGED <<data, loadSource, viewMode, isReloading, fetches, error, alerted, files>>
  /\ renderTimelineControl(playing, speed,
                           \/ currentStepIndex' # currentStepIndex
                           \/ playing # isPlaying
                           \/ speed # playSpeed)

\* A go-to-start that also stops the playback.
goToStart_stops ==
  /\ TimelineControlMounted
  /\ currentStepIndex' = 0
  /\ handlePaymentSelect(Null)
  /\ timelineControlFrame(FALSE, playSpeed)

goToStart ==
  /\ TimelineControlMounted
  /\ currentStepIndex' = 0
  /\ handlePaymentSelect(Null)
  /\ timelineControlFrame(isPlaying, playSpeed)

goToEnd ==
  /\ TimelineControlMounted
  /\ currentStepIndex' = Len(data.events) - 1
  /\ UNCHANGED <<selectedPayment, selectedAttemptIndex, selectedNodeId,
                 selectedChannelId, selectedEdgeId>>
  /\ timelineControlFrame(isPlaying, playSpeed)

\* stepForward as a closure over the step index and the events of a render.
stepForwardFrom(stepIndex) ==
  IF stepIndex < Len(data.events) - 1
  THEN /\ currentStepIndex' = stepIndex + 1
       /\ selectPaymentOfEvent(stepIndex + 1)
  ELSE UNCHANGED <<currentStepIndex, selectedPayment, selectedAttemptIndex,
                   selectedNodeId, selectedChannelId, selectedEdgeId>>

stepForward ==
  /\ TimelineControlMounted
  /\ stepForwardFrom(currentStepIndex)
  /\ timelineControlFrame(isPlaying, playSpeed)

stepBackward ==
  /\ TimelineControlMounted
  /\ IF currentStepIndex > 0
     THEN /\ currentStepIndex' = currentStepIndex - 1
          /\ selectPaymentOfEvent(currentStepIndex - 1)
     ELSE UNCHANGED <<currentStepIndex, selectedPayment, selectedAttemptIndex,
                      selectedNodeId, selectedChannelId, selectedEdgeId>>
  /\ timelineControlFrame(isPlaying, playSpeed)

\* events.findIndex: the zero-based index of the first payment_start event of
\* the payment, -1 when there is none.
findStartIndex(events, paymentId) ==
  LET hits == {i \in 1..Len(events) :
                 events[i].paymentId = paymentId /\ events[i].type = "payment_start"}
  IN  IF hits = {} THEN -1 ELSE (CHOOSE i \in hits : \A j \in hits : i <= j) - 1

jumpToPayment(paymentId) ==
  /\ TimelineControlMounted
  /\ LET eventIndex == findStartIndex(data.events, paymentId)
         k == findById(data.payments, paymentId)
     IN  IF eventIndex # -1
         THEN /\ currentStepIndex' = eventIndex
              /\ IF k # 0
                 THEN handlePaymentSelect(Some(data.payments[k].id))
                 ELSE UNCHANGED <<selectedPayment, selectedAttemptIndex, selectedNodeId,
                                  selectedChannelId, selectedEdgeId>>
         ELSE UNCHANGED <<currentStepIndex, selectedPayment, selectedAttemptIndex,
                          selectedNodeId, selectedChannelId, selectedEdgeId>>
  /\ timelineControlFrame(isPlaying, playSpeed)

\* The progress slider ranges over the steps 0..events.length - 1.
sliderChange(index) ==
  /\ TimelineControlMounted
  /\ index \in 0..(Len(data.events) - 1)
  /\ currentStepIndex' = index
  /\ selectPaymentOfEvent(index)
  /\ timelineControlFrame(isPlaying, playSpeed)

\* The event list shows the events at the steps from currentStepIndex - 5
\* (at least 0) up to currentStepIndex + 5.
eventItemClick(actualIndex) ==
  /\ TimelineControlMounted
  /\ actualIndex \in 0..(Len(data.events) - 1)
  /\ actualIndex >= currentStepIndex - 5
  /\ actualIndex < currentStepIndex + 6
  /\ currentStepIndex' = actualIndex
  /\ selectPaymentOfEvent(actualIndex)
  /\ timelineControlFrame(isPlaying, playSpeed)

\* The play / pause button: setIsPlaying(!isPlaying).
togglePlaying ==
  /\ TimelineControlMounted
  /\ UNCHANGED <<currentStepIndex, selectedPayment, selectedAttemptIndex,
                 selectedNodeId, selectedChannelId, selectedEdgeId>>
  /\ timelineControlFrame(~isPlaying, playSpeed)

PlaySpeeds == {1000, 500, 250, 100, 50}

speedChange(speed) ==
  /\ TimelineControlMounted
  /\ UNCHANGED <<currentStepIndex, selectedPayment, selectedAttemptIndex,
                 selectedNodeId, selectedChannelId, selectedEdgeId>>
  /\ timelineControlFrame(isPlaying, speed)

\* A tick that stops the playback with every step it makes.
intervalTick_stopsWithStep ==
  /\ data.present
  /\ \E t \in 1..Len(timers) :
       IF timers[t].currentStepIndex < timers[t].length - 1
       THEN /\ stepForwardFrom(timers[t].currentStepIndex)
            /\ timelineControlFrame(FALSE, playSpeed)
       ELSE /\ UNCHANGED <<currentStepIndex, selectedPayment, selectedAttemptIndex,
                           selectedNodeId, selectedChannelId, selectedEdgeId>>
            /\ timelineControlFrame(FALSE, playSpeed)

\* A tick that does not stop the playback at the last event.
intervalTick_neverStops ==
  /\ data.present
  /\ \E t \in 1..Len(timers) :
       IF timers[t].currentStepIndex < timers[t].length - 1
       THEN /\ stepForwardFrom(timers[t].currentStepIndex)
            /\ timelineControlFrame(isPlaying, playSpeed)
       ELSE /\ UNCHANGED <<currentStepIndex, selectedPayment, selectedAttemptIndex,
                           selectedNodeId, selectedChannelId, selectedEdgeId>>
            /\ timelineControlFrame(isPlaying, playSpeed)

\* A live timer fires: its callback steps forward from the step index it
\* closed over, or stops the playback at the last event.
intervalTick ==
  /\ data.present
  /\ \E t \in 1..Len(timers) :
       IF timers[t].currentStepIndex < timers[t].length - 1
       THEN /\ stepForwardFrom(timers[t].currentStepIndex)
            /\ timelineControlFrame(isPlaying, playSpeed)
       ELSE /\ UNCHANGED <<currentStepIndex, selectedPayment, selectedAttemptIndex,
                           selectedNodeId, selectedChannelId, selectedEdgeId>>
            /\ timelineControlFrame(FALSE, playSpeed)

(***************************************************************************)
(* Selection / highlight resolver (App.currentEvents, NetworkGraph).       *)
(***************************************************************************)
\* App.currentEvents: the events at the time of the event at the current step
\* (time 0 when there is no event at that step).
currentEvents_single(session, stepIndex) ==
  IF ~session.present THEN <<>>
  ELSE IF stepIndex + 1 \in 1..Len(session.events)
       THEN <<session.events[stepIndex + 1]>> ELSE <<>>

currentEvents(session, stepIndex) ==
  IF ~session.present THEN <<>>
  ELSE LET currentTime == IF stepIndex + 1 \in 1..Len(session.events)
                          THEN session.events[stepIndex + 1].time ELSE 0
           atCurrentTime(e) == e.time = currentTime
       IN  SelectSeq(session.events, atCurrentTime)

\* The from and to nodes of the edges of ids that edgeMap resolves.
endpointsOf(edges, ids) ==
  UNION {IF edgeMapGet(edges, id) # 0
         THEN {edges[edgeMapGet(edges, id)].fromNodeId, edges[edgeMapGet(edges, id)].toNodeId}
         ELSE {} : id \in ids}

\* The highlight of the events alone, whatever payment is selected.
highlights_eventsOnly(edges, events, payment) ==
  LET withRoute == {i \in 1..Len(events) : "routeEdges" \in DOMAIN events[i]}
      eventEdges == UNION {{events[i].routeEdges[h] : h \in 1..Len(events[i].routeEdges)} :
                             i \in withRoute}
  IN  [highlightedEdges |-> eventEdges,
       highlightedNodes |-> endpointsOf(edges, eventEdges),
       errorEdges       |-> {events[i].errorEdge :
                               i \in {j \in 1..Len(events) :
                                        /\ events[j].type = "payment_fail"
                                        /\ Truthy(events[j].errorEdge)}}]

\* NetworkGraph: highlightedEdges, highlightedNodes and errorEdges for the
\* current events and the selected payment (nullable: <<>> or <<payment>>).
highlights(edges, events, payment) ==
  LET withRoute == {i \in 1..Len(events) : "routeEdges" \in DOMAIN events[i]}
      eventEdges == UNION {{events[i].routeEdges[h] : h \in 1..Len(events[i].routeEdges)} :
                             i \in withRoute}
      errors == {events[i].errorEdge :
                   i \in {j \in 1..Len(events) :
                            /\ events[j].type = "payment_fail"
                            /\ Truthy(events[j].errorEdge)}}
  IN  IF payment = Null
      THEN [highlightedEdges |-> eventEdges,
            highlightedNodes |-> endpointsOf(edges, eventEdges),
            errorEdges       |-> errors]
      ELSE LET p == payment[1]
               routeEdges == {p.route[h] : h \in 1..Len(p.route)}
               lastRoute == IF p.attemptsHistory = <<>> THEN <<>>
                            ELSE p.attemptsHistory[Len(p.attemptsHistory)].route
           IN  [highlightedEdges |->
                  eventEdges \cup routeEdges
                  \cup {lastRoute[h].edge_id : h \in 1..Len(lastRoute)},
                highlightedNodes |->
                  endpointsOf(edges, eventEdges) \cup {p.senderId, p.receiverId}
                  \cup endpointsOf(edges, routeEdges)
                  \cup UNION {{lastRoute[h].from_node_id, lastRoute[h].to_node_id} :
                                h \in 1..Len(lastRoute)},
                errorEdges |-> errors]

\* App.handleNetworkNodeClick: a click on a node of the graph.
handleNetworkNodeClick(nodeId) ==
  /\ TimelineControlMounted
  /\ selectedNodeId' = Some(nodeId)
  /\ selectedChannelId' = Null
  /\ selectedEdgeId' = Null
  /\ selectedPayment' = Null
  /\ selectedAttemptIndex' = Null
  /\ UNCHANGED <<data, loadSource, currentStepIndex, viewMode, isReloading, fetches, error, alerted, files>>
  /\ renderTimelineControl(isPlaying, playSpeed, FALSE)

\* The selected payment as the graph gets it.
selectedPaymentObject ==
  IF selectedPayment = Null \/ ~data.present THEN Null
  ELSE LET k == findById(data.payments, selectedPayment[1])
       IN  IF k = 0 THEN Null ELSE Some(data.payments[k])

App_currentEvents == currentEvents(data, currentStepIndex)

NetworkGraph_highlights == highlights(data.edges, App_currentEvents, selectedPaymentObject)

Hop(edge, from, to) == [edge_id |-> edge, from_node_id |-> from, to_node_id |-> to]

\* A succeeded attempt over edge 0; an attempt over edge 1 and an edge 5 of no
\* table that failed at edge 1; a later attempt over edge 5 that failed there.
HighlightAttempts ==
  {[is_succeeded |-> 1, end_time |-> 100, error_edge |-> -1, route |-> <<Hop(0, 0, 1)>>],
   [is_succeeded |-> 0, end_time |-> 100, error_edge |-> 1,
    route |-> <<Hop(1, 1, 0), Hop(5, 3, 4)>>],
   [is_succeeded |-> 0, end_time |-> 200, error_edge |-> 5, route |-> <<Hop(5, 3, 4)>>]}

\* A payment from node 2 to node 0 with its final route and its attempts.
RoutedRow(id, route, history) ==
  [id               |-> id,
   sender_id        |-> 2,
   receiver_id      |-> 0,
   amount           |-> 1000,
   start_time       |-> 0,
   is_shard         |-> "0",
   shard1_id        |-> -1,
   shard2_id        |-> -1,
   is_success       |-> IF \E a \in 1..Len(history) : history[a].is_succeeded = 1
                        THEN "1" ELSE "0",
   route            |-> join(route, "-"),
   attempts_history |-> JsonText(history)]

LoadRouted ==
  /\ ~data.present
  /\ \E n \in 0..MaxPayments :
       \E counts \in [1..n -> 0..MaxAttempts] :
         /\ SumSeq(counts) <= MaxAttempts
         /\ \E routes \in [1..n -> {<<>>, <<1>>}] :
              \E attempts \in [1..SumSeq(counts) -> HighlightAttempts] :
                DataLoader_onDataLoaded(
                  RawData(Net2,
                          [i \in 1..n |->
                             LET before == SumSeq([j \in 1..(i - 1) |-> counts[j]])
                             IN  RoutedRow(i - 1, routes[i],
                                           [a \in 1..counts[i] |-> attempts[before + a]])]),
                  Some("files"))

ShowNetwork == \E mode \in {"overview", "network"} : handleViewModeChange(mode)

Scrub == \E index \in 0..(2 * MaxPayments + 2 * MaxAttempts) : sliderChange(index)

ClickGraphNode ==
  /\ data.present
  /\ \E i \in 1..Len(data.nodes) : handleNetworkNodeClick(data.nodes[i].id)

NextHighlight ==
  \/ LoadRouted
  \/ ShowNetwork
  \/ Scrub
  \/ goToStart
  \/ goToEnd
  \/ ClickGraphNode
  \/ handleReset

SpecHighlight == Init /\ [][NextHighlight]_vars

(***************************************************************************)
(* Selection / highlight resolver: properties.                             *)
(***************************************************************************)
\* The positions of the events whose time is the time of the event at the
\* current step.
currentPositions ==
  IF currentStepIndex + 1 \in 1..Len(data.events)
  THEN {i \in 1..Len(data.events) :
          data.events[i].time = data.events[currentStepIndex + 1].time}
  ELSE {}

\* The edge ids on the routes of the current events.
currentRouteEdges ==
  {id \in 0..5 :
     \E i \in currentPositions :
       /\ data.events[i].type \in {"payment_attempt", "payment_success"}
       /\ \E h \in 1..Len(data.events[i].routeEdges) : data.events[i].routeEdges[h] = id}

\* The nodes at the ends of the edges of the table whose id is in ids.
tableEndpoints(ids) ==
  {n \in 0..5 : \E e \in 1..Len(data.edges) :
                  data.edges[e].id \in ids
                  /\ n \in {data.edges[e].fromNodeId, data.edges[e].toNodeId}}

\* C12: with no payment selected, highlightedEdges is the union of the
\* routeEdges of the events at the current time, highlightedNodes is the set
\* of end nodes of those edges that are in the edge table, and errorEdges is
\* the set of errorEdge values of the current payment_fail events.
C12_EventHighlights ==
  (TimelineControlMounted /\ selectedPayment = Null) =>
    /\ NetworkGraph_highlights.highlightedEdges = currentRouteEdges
    /\ NetworkGraph_highlights.highlightedNodes = tableEndpoints(currentRouteEdges)
    /\ NetworkGraph_highlights.errorEdges =
         {data.events[i].errorEdge :
            i \in {j \in currentPositions : data.events[j].type = "payment_fail"}}

\* C12 witness: no payment is selected and the current step is not the event
\* that brings the highlight: another event of the same time has a route with
\* the edge 5 of no table, and a failure is current too.
C12_Witness ==
  /\ TimelineControlMounted /\ selectedPayment = Null
  /\ currentStepIndex + 1 \in 1..Len(data.events)
  /\ data.events[currentStepIndex + 1].type = "payment_fail"
  /\ NetworkGraph_highlights.highlightedEdges = {5}
  /\ NetworkGraph_highlights.highlightedNodes = {}
  /\ NetworkGraph_highlights.errorEdges = {1}

\* C13: with a payment p selected, highlightedNodes contains p's sender and
\* receiver, highlightedEdges is the routeEdges of the current events with
\* p.route and the edge ids of p's last attempt's route, and nothing the
\* current events highlight is missing.
C13_SelectionHighlights ==
  (TimelineControlMounted /\ selectedPayment # Null) =>
    LET p == data.payments[paymentPos(selectedPayment[1])]
        last == IF p.attemptsHistory = <<>> THEN <<>>
                ELSE p.attemptsHistory[Len(p.attemptsHistory)].route
    IN  /\ {p.senderId, p.receiverId} \subseteq NetworkGraph_highlights.highlightedNodes
        /\ NetworkGraph_highlights.highlightedEdges =
             currentRouteEdges \cup {p.route[h] : h \in 1..Len(p.route)}
             \cup {last[h].edge_id : h \in 1..Len(last)}
        /\ tableEndpoints(currentRouteEdges)
             \subseteq NetworkGraph_highlights.highlightedNodes
        /\ NetworkGraph_highlights.errorEdges =
             highlights(data.edges, App_currentEvents, Null).errorEdges

\* C13 witness: the selected payment has no route and no attempt, and the
\* current events highlight the route of another payment.
C13_Witness ==
  /\ TimelineControlMounted /\ selectedPayment # Null
  /\ LET p == data.payments[paymentPos(selectedPayment[1])]
     IN  /\ p.route = <<>> /\ p.attemptsHistory = <<>>
         /\ NetworkGraph_highlights.highlightedEdges = {0}
         /\ NetworkGraph_highlights.highlightedNodes = {0, 1, 2}

(***************************************************************************)
(* Playback.                                                               *)
(***************************************************************************)
\* Payments with no attempt, a succeeded attempt over edge 0, or a failed
\* attempt without a route.
PlaybackAttempts ==
  {[is_succeeded |-> 1, end_time |-> 100, error_edge |-> -1, route |-> <<Hop(0, 0, 1)>>],
   [is_succeeded |-> 0, end_time |-> 200, error_edge |-> 1, route |-> <<>>]}

LoadPlayable ==
  /\ ~data.present
  /\ \E n \in 0..MaxPayments :
       \E histories \in [1..n -> {<<>>} \cup {<<a>> : a \in PlaybackAttempts}] :
         DataLoader_onDataLoaded(
           RawData(Net1, [i \in 1..n |-> PaymentRow(i - 1, 0, histories[i])]),
           Some("files"))

MaxEvents == 3 * MaxPayments

JumpToListed ==
  /\ data.present
  /\ \E k \in 1..Len(data.payments) : jumpToPayment(data.payments[k].id)

ClickEventItem == \E index \in 0..MaxEvents : eventItemClick(index)

ScrubPlayable == \E index \in 0..MaxEvents : sliderChange(index)

ChangeSpeed == \E speed \in PlaySpeeds : speedChange(speed)

\* The seek operations of the timeline control.
Seek ==
  \/ ScrubPlayable
  \/ ClickEventItem
  \/ stepForward
  \/ stepBackward
  \/ goToStart
  \/ goToEnd
  \/ JumpToListed

NextPlayback ==
  \/ LoadPlayable
  \/ ShowNetwork
  \/ handleReset
  \/ ClickGraphNode
  \/ Seek
  \/ togglePlaying
  \/ ChangeSpeed
  \/ intervalTick

SpecPlayback == Init /\ [][NextPlayback]_vars

(***************************************************************************)
(* Playback: properties.                                                   *)
(***************************************************************************)
\* Everything but the playback state and the timers stays as it is.
onlyPlaybackChanges ==
  UNCHANGED <<data, loadSource, currentStepIndex, selectedPayment, selectedAttemptIndex,
              viewMode, selectedNodeId, selectedChannelId, selectedEdgeId,
              isReloading, fetches, error, alerted, files, playSpeed>>

lastStepIndex == Len(data.events) - 1

\* C14 (as claimed): playback is stopped or playing, and its state changes
\* only by the play control (stopped to playing), the pause control (playing
\* to stopped) and a timer tick at the last event (playing to stopped): every
\* change of the playback state is a step of the mounted timeline control
\* that changes nothing else.
C14_OnlyPlayPauseTick ==
  [][isPlaying' # isPlaying =>
       /\ TimelineControlMounted /\ TimelineControlMounted'
       /\ onlyPlaybackChanges
       /\ (intervalTick => isPlaying /\ currentStepIndex >= lastStepIndex)]_vars

\* C14 (amended): playback is stopped or playing and starts stopped; its
\* state changes only by the play control, the pause control, a timer tick at
\* the last event, and by the unmounting of the timeline control (view
\* switch away from the network view, or reset), which leaves it stopped.
C14_PlaybackTransitions ==
  /\ [](isPlaying \in BOOLEAN /\ (~TimelineControlMounted => ~isPlaying))
  /\ [][isPlaying' # isPlaying =>
          \/ /\ TimelineControlMounted /\ TimelineControlMounted'
             /\ onlyPlaybackChanges
             /\ (intervalTick => isPlaying /\ currentStepIndex >= lastStepIndex)
          \/ /\ isPlaying /\ ~isPlaying'
             /\ TimelineControlMounted /\ ~TimelineControlMounted'
             /\ (handleReset \/ ShowNetwork)]_vars

\* C14 witness: playback has reached the last of at least two events and the
\* next tick stops it.
C14_Witness ==
  /\ TimelineControlMounted /\ isPlaying
  /\ Len(data.events) >= 2
  /\ currentStepIndex = lastStepIndex
  /\ timers = <<intervalCallback(currentStepIndex, data.events)>>
  /\ ENABLED (intervalTick /\ ~isPlaying')

\* C16 (as claimed): a seek operation leaves the playback state and the play
\* speed as they are and changes only the step index and the selected payment.
C16_SeekChangesStepAndPayment ==
  [][Seek => UNCHANGED <<isPlaying, playSpeed, data, loadSource, viewMode,
                         selectedAttemptIndex, selectedNodeId, selectedChannelId,
                         selectedEdgeId, isReloading, fetches, error, alerted, files>>]_vars

\* C16 (amended): every seek operation is enabled in both playback states and
\* leaves the playback state and the play speed as they are; it changes only
\* the step index and the selections: the selected payment and, when it
\* selects or deselects a payment, the attempt, node, channel and edge
\* selections, which it clears.
C16_SeekKeepsPlayback ==
  /\ [](TimelineControlMounted =>
          /\ ENABLED goToStart /\ ENABLED goToEnd
          /\ ENABLED stepForward /\ ENABLED stepBackward
          /\ \A index \in 0..lastStepIndex :
               ENABLED sliderChange(index)
               /\ (index >= currentStepIndex - 5 /\ index < currentStepIndex + 6
                     => ENABLED eventItemClick(index))
          /\ \A k \in 1..Len(data.payments) : ENABLED jumpToPayment(data.payments[k].id))
  /\ [][Seek =>
          /\ UNCHANGED <<isPlaying, playSpeed, data, loadSource, viewMode,
                         isReloading, fetches, error, alerted, files>>
          /\ \/ UNCHANGED <<selectedPayment, selectedAttemptIndex, selectedNodeId,
                            selectedChannelId, selectedEdgeId>>
             \/ /\ selectedAttemptIndex' = Null /\ selectedNodeId' = Null
                /\ selectedChannelId' = Null /\ selectedEdgeId' = Null]_vars

\* C16 witness: while playing at a speed other than the initial one, a seek
\* has put the step index past the start and selected a payment.
C16_Witness ==
  /\ TimelineControlMounted /\ isPlaying /\ playSpeed = 250
  /\ currentStepIndex = 1
  /\ selectedPayment # Null
  /\ selectedNodeId = Null

UserWhileStopped ==
  /\ ~isPlaying
  /\ \/ LoadPlayable
     \/ ShowNetwork
     \/ handleReset
     \/ Seek
     \/ togglePlaying
     \/ ChangeSpeed

NextAutoPlay == UserWhileStopped \/ intervalTick

SpecAutoPlay == Init /\ [][NextAutoPlay]_vars /\ WF_vars(intervalTick)

\* C15: while playing, a timer tick below the last step index advances the
\* step index by exactly one and keeps playing, and a tick at the last index
\* stops the playback and leaves the index; with timer ticks and no user
\* input, playback leads to the stopped state with the step index at the last
\* event (stopped by the first tick when there is no event).
C15_PlaybackRunsToEnd ==
  /\ [][intervalTick =>
          IF currentStepIndex < lastStepIndex
          THEN currentStepIndex' = currentStepIndex + 1 /\ isPlaying'
          ELSE currentStepIndex' = currentStepIndex /\ ~isPlaying']_vars
  /\ (isPlaying ~> (/\ ~isPlaying
                    /\ TimelineControlMounted
                    /\ (data.events = <<>> \/ currentStepIndex = lastStepIndex)))

\* C15 witness: playing in the middle of at least three events, with the
\* timer that will make the next step.
C15_Witness ==
  /\ TimelineControlMounted /\ isPlaying
  /\ Len(data.events) >= 3
  /\ currentStepIndex > 0 /\ currentStepIndex < lastStepIndex
  /\ timers = <<intervalCallback(currentStepIndex, data.events)>>

(***************************************************************************)
(* Loading, reloading and resetting the session.                           *)
(***************************************************************************)
\* The tables the loader or a reload may read: those of LoadPlayable.
PlayableTables(n, histories) ==
  RawData(Net1, [i \in 1..n |-> PaymentRow(i - 1, 0, histories[i])])

\* loadSampleData of the loader, when every fetch and the parsing succeed.
LoadSample ==
  /\ ~data.present
  /\ \E n \in 0..MaxPayments :
       \E histories \in [1..n -> {<<>>} \cup {<<a>> : a \in PlaybackAttempts}] :
         DataLoader_onDataLoaded(PlayableTables(n, histories), Some("sample"))

\* A load of the loader that fails: a read or fetch that fails sets the
\* loader's error ("read"); tables whose parsing throws are caught by
\* handleDataLoaded, which alerts ("parse").
DataLoader_failed(reason) ==
  /\ ~data.present
  /\ IF reason = "read"
     THEN error' = Some(reason) /\ UNCHANGED alerted
     ELSE alerted' = Some(reason) /\ UNCHANGED error
  /\ UNCHANGED <<data, loadSource, currentStepIndex, selectedPayment,
                 selectedAttemptIndex, viewMode, selectedNodeId, selectedChannelId,
                 selectedEdgeId, isReloading, fetches, files, isPlaying, playSpeed,
                 timers>>

LoadFails == \E reason \in {"read", "parse"} : DataLoader_failed(reason)

\* handleReload up to its first await.  The button is in the header of a
\* session and disabled while a reload is in flight.  A session loaded from
\* files is reset after a confirmation; one loaded from the sample starts
\* the fetches; with no load source nothing happens.
handleReload(shouldReload) ==
  /\ data.present
  /\ ~isReloading
  /\ loadSource # Null
  /\ IF loadSource = Some("files")
     THEN shouldReload /\ handleReset
     ELSE /\ isReloading' = TRUE
          /\ fetches' = fetches + 1
          /\ UNCHANGED <<data, loadSource, currentStepIndex, selectedPayment,
                         selectedAttemptIndex, viewMode, selectedNodeId,
                         selectedChannelId, selectedEdgeId, error, alerted, files,
                         isPlaying, playSpeed, timers>>

PressReload == \E shouldReload \in BOOLEAN : handleReload(shouldReload)

\* The rest of handleReload when every fetch succeeded and the tables parse:
\* handleDataLoaded without a source, then the finally block.  Nothing
\* cancels the fetches, so this runs whatever happened since they started.
handleReload_fulfilled(rawData) ==
  /\ fetches > 0
  /\ handleDataLoaded(rawData, Null)
  /\ isReloading' = FALSE
  /\ fetches' = fetches - 1
  /\ error' = IF data.present THEN error ELSE Null
  /\ files' = Null
  /\ UNCHANGED alerted

ReloadFulfilled ==
  \E n \in 0..MaxPayments :
    \E histories \in [1..n -> {<<>>} \cup {<<a>> : a \in PlaybackAttempts}] :
      handleReload_fulfilled(PlayableTables(n, histories))

\* The rest of handleReload while the playback runs, when a tick of the
\* interval is due before the cleanup of the auto-play effect.  The updates
\* of handleDataLoaded are made after an await, so they are committed by a
\* later task, and clearInterval runs in the effect cleanup after that
\* commit; the timer's callback still closes over the step index, the events
\* and the payments of the replaced session, and its updates are applied
\* after those of handleDataLoaded.
handleReload_fulfilled_staleTick(rawData) ==
  /\ fetches > 0
  /\ TimelineControlMounted
  /\ isPlaying
  /\ timers # <<>>
  /\ LET timer == timers[Len(timers)]
         payments == parsePayments(rawData.paymentsContent)
         advances == timer.currentStepIndex < timer.length - 1
         nextIndex == timer.currentStepIndex + 1
     IN  /\ data' = [present  |-> TRUE,
                     nodes    |-> parseNodes(rawData.nodesContent),
                     channels |-> parseChannels(rawData.channelsContent),
                     edges    |-> parseEdges(rawData.edgesContent),
                     payments |-> payments,
                     config   |-> parseConfig(rawData.configContent),
                     events   |-> generateTimelineEvents(payments)]
         /\ UNCHANGED <<loadSource, viewMode>>
         /\ IF advances
            THEN /\ currentStepIndex' = nextIndex
                 /\ LET k == findById(data.payments,
                                      data.events[nextIndex + 1].paymentId)
                    IN  IF k # 0
                        THEN handlePaymentSelect(Some(data.payments[k].id))
                        ELSE /\ selectedPayment' = Null
                             /\ UNCHANGED <<selectedAttemptIndex, selectedNodeId,
                                            selectedChannelId, selectedEdgeId>>
            ELSE /\ currentStepIndex' = 0
                 /\ selectedPayment' = Null
                 /\ UNCHANGED <<selectedAttemptIndex, selectedNodeId,
                                selectedChannelId, selectedEdgeId>>
         /\ renderTimelineControl(advances, playSpeed, TRUE)
  /\ isReloading' = FALSE
  /\ fetches' = fetches - 1
  /\ files' = Null
  /\ UNCHANGED <<error, alerted>>

ReloadFulfilledBeforeCleanup ==
  \E n \in 0..MaxPayments :
    \E histories \in [1..n -> {<<>>} \cup {<<a>> : a \in PlaybackAttempts}] :
      handleReload_fulfilled_staleTick(PlayableTables(n, histories))

\* The rest of handleReload when a fetch is rejected or not ok ("reload":
\* the catch block alerts) or when the parsing throws ("parse":
\* handleDataLoaded catches and alerts); then the finally block.
handleReload_rejected_dropsSession(reason) ==
  /\ fetches > 0
  /\ alerted' = Some(reason)
  /\ isReloading' = FALSE
  /\ fetches' = fetches - 1
  /\ data' = NoData
  /\ UNCHANGED <<loadSource, currentStepIndex, selectedPayment,
                 selectedAttemptIndex, viewMode, selectedNodeId, selectedChannelId,
                 selectedEdgeId, error, files>>
  /\ renderTimelineControl(isPlaying, playSpeed, TRUE)

handleReload_rejected(reason) ==
  /\ fetches > 0
  /\ alerted' = Some(reason)
  /\ isReloading' = FALSE
  /\ fetches' = fetches - 1
  /\ UNCHANGED <<data, loadSource, currentStepIndex, selectedPayment,
                 selectedAttemptIndex, viewMode, selectedNodeId, selectedChannelId,
                 selectedEdgeId, error, files, isPlaying, playSpeed, timers>>

ReloadRejected == \E reason \in {"reload", "parse"} : handleReload_rejected(reason)

NextSession ==
  \/ LoadSample
  \/ LoadPlayable
  \/ LoadFails
  \/ PressReload
  \/ ReloadFulfilled
  \/ ReloadFulfilledBeforeCleanup
  \/ ReloadRejected
  \/ handleReset
  \/ ShowNetwork
  \/ Seek
  \/ ClickGraphNode
  \/ togglePlaying
  \/ intervalTick

SpecSession == Init /\ [][NextSession]_vars

\* What a session consists of, with the position and the selections in it.
sessionState ==
  <<data, loadSource, currentStepIndex, selectedPayment, selectedAttemptIndex,
    viewMode, selectedNodeId, selectedChannelId, selectedEdgeId,
    isPlaying, playSpeed, timers>>

\* C18: a load or reload that fails (a fetch rejected or not ok, a read that
\* fails, a parsing that throws) installs nothing: the step that surfaces the
\* failure notice leaves the session, the load source, the step index, the
\* selections, the view and the playback as they were, be there a session
\* (failed reload) or none (failed load).
C18_FailureInstallsNothing ==
  [][(\/ LoadFails
      \/ ReloadRejected
      \/ alerted' # alerted
      \/ (error' # error /\ error' # Null))
     => UNCHANGED sessionState]_vars

\* A failed reload has left a session in use: a step index past the first
\* event and a selected payment, the load source still the sample.
C18_Witness ==
  /\ alerted = Some("reload")
  /\ ~isReloading /\ fetches = 0
  /\ data.present /\ Len(data.events) >= 3
  /\ loadSource = Some("sample")
  /\ currentStepIndex > 0
  /\ selectedPayment # Null

\* C19: reset discards the session (no session, no load source, step index
\* 0, every selection cleared), and afterwards the session stays absent
\* until a load from the loader: no other step, in particular not the
\* completion of a reload that was in flight at the reset, installs one.
C19_ResetDiscardsSession ==
  /\ [][handleReset => /\ data' = NoData
                       /\ loadSource' = Null
                       /\ currentStepIndex' = 0
                       /\ selectedPayment' = Null
                       /\ selectedAttemptIndex' = Null
                       /\ selectedNodeId' = Null
                       /\ selectedChannelId' = Null
                       /\ selectedEdgeId' = Null]_vars
  /\ [][(~data.present /\ data'.present) => (LoadSample \/ LoadPlayable)]_vars

\* C20: the events of a session are always the timeline generated from its
\* payments; loads and reloads install both together, and stepping, seeking,
\* selecting and changing the view leave both alone.
C20_EventsOfPayments ==
  data.present => data.events = generateTimelineEvents(data.payments)

\* A session of the sample being played in the network view, two steps in,
\* with the payment of the current event selected.
C20_Witness ==
  /\ data.present /\ Len(data.events) >= 3
  /\ loadSource = Some("sample")
  /\ ~isReloading
  /\ viewMode = "network"
  /\ isPlaying
  /\ currentStepIndex = 2
  /\ selectedPayment = Some(data.events[3].paymentId)

(***************************************************************************)
(* The forest builders on a finite call stack.                             *)
(***************************************************************************)
\* The nesting of calls the builders get.  A nesting deeper than the number
\* of payments has some payment twice on the stack; nothing the inner call
\* reads differs from what the outer one read (the cache is written after
\* the children are built), so the recursion never returns and the engine
\* ends it by throwing RangeError when the stack is full.
StackRoom(payments) == Len(payments) + 1

Thrown == [thrown |-> TRUE]

\* PaymentTree.buildTree without a cache, with room more calls on the stack.
RECURSIVE buildTreeOnStack(_, _, _, _)
buildTreeOnStack(payments, payment, depth, room) ==
  IF room = 0 THEN Thrown
  ELSE LET k1 == resolveShard(payments, payment.shard1Id)
           r1 == buildTreeOnStack(payments, payments[k1], depth + 1, room - 1)
           k2 == resolveShard(payments, payment.shard2Id)
           r2 == buildTreeOnStack(payments, payments[k2], depth + 1, room - 1)
       IN  IF k1 # 0 /\ r1.thrown THEN Thrown
           ELSE IF k2 # 0 /\ r2.thrown THEN Thrown
           ELSE [thrown |-> FALSE,
                 node   |-> treeNode(payment,
                                     (IF k1 # 0 THEN <<r1.node>> ELSE <<>>)
                                     \o (IF k2 # 0 THEN <<r2.node>> ELSE <<>>),
                                     depth)]

\* PaymentTree.buildTree with the cache, with room more calls on the stack.
RECURSIVE buildTreeMemoOnStack(_, _, _, _, _)
buildTreeMemoOnStack(payments, payment, depth, cache, room) ==
  IF room = 0 THEN Thrown
  ELSE IF payment.id \in DOMAIN cache
  THEN [thrown |-> FALSE, node |-> cache[payment.id], cache |-> cache]
  ELSE LET k1 == resolveShard(payments, payment.shard1Id)
           r1 == buildTreeMemoOnStack(payments, payments[k1], depth + 1, cache, room - 1)
           cache1 == IF k1 # 0 THEN r1.cache ELSE cache
           k2 == resolveShard(payments, payment.shard2Id)
           r2 == buildTreeMemoOnStack(payments, payments[k2], depth + 1, cache1, room - 1)
           cache2 == IF k2 # 0 THEN r2.cache ELSE cache1
       IN  IF k1 # 0 /\ r1.thrown THEN Thrown
           ELSE IF k2 # 0 /\ r2.thrown THEN Thrown
           ELSE LET node == treeNode(payment,
                                     (IF k1 # 0 THEN <<r1.node>> ELSE <<>>)
                                     \o (IF k2 # 0 THEN <<r2.node>> ELSE <<>>),
                                     depth)
                IN  [thrown |-> FALSE, node |-> node,
                     cache |-> (payment.id :> node) @@ cache2]

\* Whether building the root trees (no cache) throws.
rootTreesThrow(payments) ==
  LET isRoot(p) == (p.shard1Id >= 0 \/ p.shard2Id >= 0) /\ ~p.isShard
      roots == SelectSeq(payments, isRoot)
  IN  \E k \in 1..Len(roots) :
        buildTreeOnStack(payments, roots[k], 0, StackRoom(payments)).thrown

\* The pre-build loop on the stack: the cache, or Thrown.
RECURSIVE prebuildOnStack(_, _, _)
prebuildOnStack(payments, roots, cache) ==
  IF roots = <<>> THEN [thrown |-> FALSE, cache |-> cache]
  ELSE LET r == buildTreeMemoOnStack(payments, Head(roots), 0, cache,
                                     StackRoom(payments))
       IN  IF r.thrown THEN Thrown
           ELSE prebuildOnStack(payments, Tail(roots), r.cache)

treeCacheThrows(payments) ==
  LET notShard(p) == ~p.isShard
  IN  prebuildOnStack(payments, SelectSeq(payments, notShard), <<>>).thrown

\* The loader hands over a payments table of at most MaxForest rows with at
\* most MaxShardRefs shard references, cycles included; is_shard is free.
LoadReferences ==
  /\ ~data.present
  /\ \E n \in 0..MaxForest :
       \E refs \in [1..n -> (-1..n) \X (-1..n)] :
         /\ SumSeq([i \in 1..n |-> refCost(refs[i][1]) + refCost(refs[i][2])])
              <= MaxShardRefs
         /\ \E flags \in [1..n -> {"0", "1"}] :
              DataLoader_onDataLoaded(
                RawData(Net1, ForestTable(n, refs, flags, [i \in 1..n |-> "1"])),
                Some("files"))

NextReferences == LoadReferences \/ ShowTree \/ handleReset

SpecReferences == Init /\ [][NextReferences]_vars

\* C21: forest construction terminates for every payment collection, cyclic
\* shard references included: neither builder of the mounted payment tree
\* recurses until the stack is full.
C21_ForestConstructionTerminates ==
  (data.present /\ viewMode = "tree")
    => /\ ~rootTreesThrow(data.payments)
       /\ ~treeCacheThrows(data.payments)

(***************************************************************************)
(* The tree cache against the uncached builder.                            *)
(***************************************************************************)
\* The ids of the payments reached from the ids of S over at most k resolved
\* shard references.
RECURSIVE reachedIds(_, _, _)
reachedIds(payments, S, k) ==
  IF k = 0 THEN S
  ELSE reachedIds(payments,
                  S \cup {payments[j].id : j \in
                            {j \in 1..Len(payments) :
                               \E i \in 1..Len(payments) :
                                 /\ payments[i].id \in S
                                 /\ j \in {resolveShard(payments, payments[i].shard1Id),
                                           resolveShard(payments, payments[i].shard2Id)}}},
                  k - 1)

\* The cached node of an id has the payment, the children ids and the leaf
\* aggregates of a build of that payment without a cache.
cachedAsFresh(cache, id) ==
  LET payments == data.payments
      fresh == buildTree(payments, payments[paymentMapGet(payments, id)], 0)
      childIds(t) == [c \in 1..Len(t.children) |-> t.children[c].payment.id]
  IN  /\ cache[id].payment = fresh.payment
      /\ childIds(cache[id]) = childIds(fresh)
      /\ cache[id].leafCount = fresh.leafCount
      /\ cache[id].totalLeafAmount = fresh.totalLeafAmount

C30_DepthFollowsStructure ==
  (data.present /\ viewMode = "tree") =>
    LET cache == PaymentTree_treeCache
    IN  \A id \in DOMAIN cache :
          /\ ~cache[id].payment.isShard => cache[id].depth = 0
          /\ \A t \in treeNodes(cache[id]) :
               \A c \in 1..Len(t.children) : t.children[c].depth = t.depth + 1

(***************************************************************************)
(* Payments tables whose attempts_history may fail to decode.              *)
(***************************************************************************)
\* The texts of an attempts_history field: empty, malformed, or the JSON of
\* one attempt of PlaybackAttempts.
HistoryTexts ==
  {EmptyText, MalformedText} \cup {JsonText(<<a>>) : a \in PlaybackAttempts}

\* A payments row with the given attempts_history text.  is_success follows
\* the history when it can be read off it and is as given when it cannot.
HistoryRow(id, text, isSuccess) ==
  [id               |-> id,
   sender_id        |-> 0,
   receiver_id      |-> 1,
   amount           |-> 1000,
   start_time       |-> 0,
   is_shard         |-> "0",
   shard1_id        |-> -1,
   shard2_id        |-> -1,
   is_success       |-> IF text.text = "json"
                        THEN (IF text.value[1].is_succeeded = 1 THEN "1" ELSE "0")
                        ELSE IF text.text = "empty" THEN "0"
                        ELSE isSuccess,
   route            |-> <<>>,
   attempts_history |-> text]

\* The loader hands over n payments rows (ids 0..n-1) with the given texts.
loadHistories(n, texts, flags) ==
  DataLoader_onDataLoaded(
    RawData(Net1, [i \in 1..n |-> HistoryRow(i - 1, texts[i], flags[i])]),
    Some("files"))

LoadHistories ==
  /\ ~data.present
  /\ \E n \in 0..MaxPayments :
       \E texts \in [1..n -> HistoryTexts] :
         \E flags \in [1..n -> {"0", "1"}] :
           loadHistories(n, texts, flags)

NextDecode == LoadHistories \/ ShowNetwork \/ ScrubPlayable \/ handleReset

SpecDecode == Init /\ [][NextDecode]_vars

\* C23: a payments row whose attempts_history fails to decode does not abort
\* the parsing: the session has one payment per row, in row order; the
\* payment of such a row has attemptsHistory = [] and, in the timeline, its
\* start event and no other; every other row has the history its text
\* denotes.
C23_UndecodableHistoryKeepsRow ==
  [][\A n \in 0..MaxPayments :
       \A texts \in [1..n -> HistoryTexts] :
         \A flags \in [1..n -> {"0", "1"}] :
           loadHistories(n, texts, flags) =>
             /\ data'.present
             /\ Len(data'.payments) = n
             /\ \A i \in 1..n :
                  LET payment == data'.payments[i]
                      ownEvent(e) == e.paymentId = i - 1
                      own == SelectSeq(data'.events, ownEvent)
                  IN  /\ payment.id = i - 1
                      /\ payment.isSuccess = (HistoryRow(i - 1, texts[i], flags[i]).is_success = "1")
                      /\ IF texts[i].text = "json"
                         THEN payment.attemptsHistory = texts[i].value
                         ELSE /\ payment.attemptsHistory = <<>>
                              /\ Len(own) = 1
                              /\ own[1].type = "payment_start"]_vars

\* C23 witness: a session of two payments; the first is marked as succeeded
\* but has no history (its text did not decode) and only its start event,
\* the second has its attempt and the events of it.
C23_Witness ==
  /\ data.present
  /\ Len(data.payments) = 2
  /\ data.payments[1].isSuccess
  /\ data.payments[1].attemptsHistory = <<>>
  /\ Len(data.payments[2].attemptsHistory) = 1
  /\ LET first(e) == e.paymentId = data.payments[1].id
         second(e) == e.paymentId = data.payments[2].id
     IN  /\ Len(SelectSeq(data.events, first)) = 1
         /\ Len(SelectSeq(data.events, second)) = 3

(***************************************************************************)
(* Tables whose list-valued fields hold any text.                          *)
(***************************************************************************)
\* The characters of the enumerated texts: two digits, the separator and a
\* letter.
TextChars == {"0", "1", "-", "a"}

\* The loader hands over one node with the given open_edges and one payment
\* with the given route.
loadListTexts(openEdges, route) ==
  DataLoader_onDataLoaded(
    [nodesContent    |-> <<[id |-> 0, open_edges |-> openEdges]>>,
     channelsContent |-> Net1.channels,
     edgesContent    |-> Net1.edges,
     paymentsContent |-> <<[PaymentRow(0, 0, <<>>) EXCEPT !.route = route]>>,
     configContent   |-> <<>>],
    Some("files"))

\* Texts of at most MaxText characters together.
LoadLists ==
  /\ ~data.present
  /\ \E len1 \in 0..MaxText :
       \E len2 \in 0..(MaxText - len1) :
         \E openEdges \in [1..len1 -> TextChars] :
           \E route \in [1..len2 -> TextChars] :
             loadListTexts(openEdges, route)

NextLists == LoadLists \/ handleReset

SpecLists == Init /\ [][NextLists]_vars

\* The integers that the numeric tokens of a hyphen-separated text denote,
\* in order; a numeric token is one that Number does not make NaN: a string
\* of digits, or the empty token, which Number makes 0.
integersDenoted(text) ==
  LET at == {i \in 1..Len(text) : text[i] = "-"}
      \* the position of the j-th separator; 0 and Len(text) + 1 bound the text
      bound(j) == IF j = 0 THEN 0
                  ELSE IF j > Cardinality(at) THEN Len(text) + 1
                  ELSE CHOOSE i \in at : Cardinality({h \in at : h < i}) = j - 1
      token(j) == SubSeq(text, bound(j - 1) + 1, bound(j) - 1)
      numeric(j) == \A i \in 1..Len(token(j)) : isDigit(token(j)[i])
      value(j) == IF numeric(j) THEN <<decimalValue(token(j))>> ELSE <<>>
  IN  IF text = <<>> THEN <<>>
      ELSE Flatten([j \in 1..(Cardinality(at) + 1) |-> value(j)])

\* C25: the parsed open_edges of a node and the parsed route of a payment
\* are the integers denoted by the numeric tokens of the field, in order;
\* no parsed list contains NaN.
C25_ListsOfNumericTokens ==
  [][\A len1 \in 0..MaxText :
       \A len2 \in 0..(MaxText - len1) :
         \A openEdges \in [1..len1 -> TextChars] :
           \A route \in [1..len2 -> TextChars] :
             loadListTexts(openEdges, route) =>
               /\ data'.nodes[1].openEdges = integersDenoted(openEdges)
               /\ data'.payments[1].route = integersDenoted(route)
               /\ \A i \in 1..Len(data'.nodes[1].openEdges) :
                    ~isNaN(data'.nodes[1].openEdges[i])
               /\ \A i \in 1..Len(data'.payments[1].route) :
                    ~isNaN(data'.payments[1].route[i])]_vars

\* A parsed list without NaN is a list of integers.
isIntegerList(list) == \A i \in 1..Len(list) : ~isNaN(list[i])

selectFiles(contents) ==
  /\ ~data.present
  /\ files' = Some(contents)
  /\ error' = Null
  /\ UNCHANGED <<data, loadSource, currentStepIndex, selectedPayment,
                 selectedAttemptIndex, viewMode, selectedNodeId, selectedChannelId,
                 selectedEdgeId, isReloading, fetches, alerted, isPlaying, playSpeed,
                 timers>>

\* loadFiles of the loader when every file is read: without the files, an
\* error; with them, their contents are handed over.
loadFiles ==
  /\ ~data.present
  /\ IF files = Null
     THEN /\ error' = Some("select")
          /\ UNCHANGED <<data, loadSource, currentStepIndex, selectedPayment,
                         selectedAttemptIndex, viewMode, selectedNodeId,
                         selectedChannelId, selectedEdgeId, isReloading, fetches,
                         alerted, files, isPlaying, playSpeed, timers>>
     ELSE DataLoader_onDataLoaded(files[1], Some("files"))

\* The keys that the enumerated config texts may have a line for: three
\* with an integer default, one without a default, and one that is no key
\* of the config.
ProbeKeys == <<"payment_timeout", "group_size", "mpp", "n_additional_nodes", "colour">>

\* The values of those lines.
ValueTexts == {<<>>, <<"0">>, <<"7">>, <<"a">>, <<"7", "a">>}

\* What may follow those lines: nothing, a line "mpp" without '=', a line
\* "payment_timeout=7=0", or a line "=7" without key.
ExtraLines ==
  {<<>>,
   <<ConfigLine("mpp", <<>>)>>,
   <<ConfigLine("payment_timeout", <<<<"7">>, <<"0">>>>)>>,
   <<ConfigLine("", <<<<"7">>>>)>>}

\* The config text with a line key=value for every key with a value, in the
\* order of ProbeKeys, and the extra lines.
configText(values, extra) ==
  Flatten([k \in 1..Len(ProbeKeys) |->
             IF values[k] = Null THEN <<>>
             ELSE <<ConfigLine(ProbeKeys[k], <<values[k][1]>>)>>])
  \o extra

\* The user chooses the five files once while the loader is shown.
SelectConfig ==
  /\ files = Null
  /\ \E values \in [1..Len(ProbeKeys) -> {Null} \cup {Some(t) : t \in ValueTexts}] :
       \E extra \in ExtraLines :
         selectFiles([RawData(Net1, <<>>) EXCEPT !.configContent = configText(values, extra)])

NextConfig == SelectConfig \/ loadFiles \/ ShowNetwork \/ handleReset

SpecConfig == Init /\ [][NextConfig]_vars

\* The keys of the config.
configKeys == {ConfigFields[i].key : i \in 1..Len(ConfigFields)}

\* A text has a line for a key.
hasLineFor(lines, key) == \E i \in 1..Len(lines) : lines[i].key = key

\* C24: loading a config text gives every field with a numeric default whose
\* key has no line in the text that default, 60000 for paymentTimeout and 5
\* for groupSize among them, and the lines of keys that are no config key
\* change no field: the config is that of the text without them.
C24_MissingKeysDefault ==
  [][(loadFiles /\ files # Null) =>
       LET lines == files[1].configContent
           known(line) == line.key \in configKeys
       IN  /\ \A i \in 1..Len(ConfigFields) :
                (/\ ConfigFields[i].kind \in {"int", "float"}
                 /\ ~hasLineFor(lines, ConfigFields[i].key))
                  => data'.config[ConfigFields[i].field] = ConfigFields[i].default
           /\ ~hasLineFor(lines, "payment_timeout") => data'.config.paymentTimeout = 60000
           /\ ~hasLineFor(lines, "group_size") => data'.config.groupSize = 5
           /\ data'.config = parseConfig(SelectSeq(lines, known))]_vars

\* C24 witness: a loaded config with the defaults of paymentTimeout and
\* groupSize next to an mpp and a node count read from the text.
C24_Witness ==
  /\ data.present
  /\ loadSource = Some("files")
  /\ data.config.paymentTimeout = 60000
  /\ data.config.groupSize = 5
  /\ data.config.mpp = 7
  /\ data.config.nAdditionalNodes = Some(Some(7))
  /\ data.config.maxShardCount = 16

\* A value that is the text of an integer: a non-empty string of digits.
isIntegerText(text) == text # <<>> /\ \A i \in 1..Len(text) : isDigit(text[i])

\* C29: loading a config text gives every numeric field whose key has an
\* integer value v in the text, 0 included, the value v.
C29_PresentValueIsKept ==
  [][(loadFiles /\ files # Null) =>
       LET lines == files[1].configContent
       IN  \A i \in 1..Len(ConfigFields) :
             LET f == ConfigFields[i]
                 value == configValue(lines, f.key)
             IN  (value # Null /\ isIntegerText(value[1])) =>
                   CASE f.kind = "int" ->
                          data'.config[f.field] = decimalValue(value[1])
                     [] f.kind = "float" ->
                          data'.config[f.field] = Ratio(decimalValue(value[1]), 1)
                     [] f.kind = "nullable" ->
                          data'.config[f.field] = Some(Some(decimalValue(value[1])))
                     [] OTHER -> TRUE]_vars

(***************************************************************************)
(* The step index and the selected payment of a session.                   *)
(***************************************************************************)
\* C27: while a session is shown, the step index is a valid index into the
\* session's events, 0 <= currentStepIndex <= events.length - 1, and it is 0
\* when the session has no events.
C27_StepIndexInRange ==
  data.present =>
    IF data.events = <<>>
    THEN currentStepIndex = 0
    ELSE currentStepIndex \in 0..(Len(data.events) - 1)

\* C28: the selected payment is null or a payment of the session's current
\* payment collection; no payment of a replaced session stays selected, also
\* when a tick of the playback timer or an in-flight reload interleaves with
\* the swap of the data.
C28_SelectionInCurrentCollection ==
  selectedPayment # Null =>
    /\ data.present
    /\ \E k \in 1..Len(data.payments) : data.payments[k].id = selectedPayment[1]

====
